---- MODULE Spec2Model ----
(***************************************************************************)
(* Verification-code lifecycle and rate/attempt limiter of the ezeehealth  *)
(* backend (apps/authentication, apps/patient_portal).                     *)
(*                                                                         *)
(* Time is counted in clock ticks, TicksPerSecond ticks to the second, so  *)
(* that timezone.now() differences (total_seconds(), a float) and the      *)
(* int(...) truncations of the source keep their meaning.  The clock is    *)
(* observed at the instants ClockMarks(flow): the second marks at which a  *)
(* timeout of the flow falls due, and one tick after each.                 *)
(*                                                                         *)
(* One account (one e-mail address, one mobile number) is modelled; it is  *)
(* created by PatientRegisterView or by UserManager.create_user.  A        *)
(* behaviour exercises one code flow                                       *)
(* (variable flow): the flows keep their state in different model fields   *)
(* and cache keys.  The Django cache is modelled at its interface: an      *)
(* entry set with timeout T is returned by get until T has passed.         *)
(***************************************************************************)
EXTENDS Integers, Naturals, Sequences, FiniteSets, TLC

(* ------------------------------ bounds --------------------------------- *)
TicksPerSecond == 2

NumCodes == 2

NumPasswords == 2

MaxFailures == 6

MaxRuns == 2

MaxChunks == 2

(* the files one request can carry, and the documents a link can collect *)
MaxFiles == 2

NumInsights == 2

(* ------------------------- program constants --------------------------- *)
EMAIL_VERIFICATION_EXPIRY == 600

PASSWORD_RESET_EXPIRY == 600

INVITATION_EXPIRY == 604800

PATIENT_INVITE_DAYS == 30

BATCH_SIZE == 100

(* expires_at=timezone.now() + timezone.timedelta(days=7) *)
LINK_DAYS == 7

(* RecursiveCharacterTextSplitter(chunk_size=1000, ...) *)
CHUNK_SIZE == 1000

(* index.query(..., top_k=200, ...) *)
TOP_K == 200

(* full_text[:15000] *)
PROMPT_CHARS == 15000

OTP_TIMEOUT == 300

OTP_RESEND_SECONDS == 30

LIMIT_SECONDS == 60

MAX_ATTEMPTS == 5

WINDOW_MINUTES == 10

DEBUG_On == TRUE

DEBUG == FALSE

(* ------------------------------ helpers -------------------------------- *)
Seconds(s) == s * TicksPerSecond

SecondMarks(f) ==
    CASE f = "otp" -> {0, 30, 300}
      [] f = "keys" -> {0, 600}
      [] f = "staff_invite" -> {0, INVITATION_EXPIRY}
      [] f = "patient_invite" -> {0, PATIENT_INVITE_DAYS * 86400}
      [] f = "upload_link" -> {0, LINK_DAYS * 86400}
      [] f = "setup_race" -> {0, INVITATION_EXPIRY}
      [] f = "staff_login" -> {0, INVITATION_EXPIRY}
      [] OTHER -> {0, 60, 600}

ClockMarks(f) ==
    {Seconds(m) : m \in SecondMarks(f)} \cup {Seconds(m) + 1 : m \in SecondMarks(f)}

Codes == 1..NumCodes

Passwords == 1..NumPasswords

NoCode == 0

BypassOtp == 1

Actions == {"password_reset", "email_verification"}

Purposes == {"password_reset", "email_verification", "otp"}

Flows == Purposes

(* the flows in which the login endpoints are called *)
LoginFlows == {"otp", "staff_login"}

(* the flows in which the staff invitation endpoints are called *)
StaffFlows == {"staff_invite", "staff_login"}

Workers == {1, 2}

VARIABLES now, flow, user, otpCache, attempts, rateMarker, resp,
          issued, lastAllowed, fails, pc, seen, granted,
          cache, invites, inviteLog,
          doc, insightRows, vectors, runs, processing, handler, stored,
          delivery, ask, toggle, links, setup, twin, shares

(* the variables of the code flows *)
codeVars == <<user, otpCache, attempts, rateMarker, issued, lastAllowed, fails,
              pc, seen, granted>>

(* the variables the code flows leave alone *)
(* the variables the clock does not touch *)
(* the variables of the document pipelines *)
(* the variables of what stands beside the flows and the pipeline runs *)
sideVars == <<ask, toggle, links, setup, twin, shares>>

docVars == <<doc, insightRows, vectors, runs, processing, handler, stored, sideVars>>

inviteVars == <<invites, inviteLog>>

stillVars == <<inviteVars, docVars>>

otherVars == <<cache, stillVars, delivery>>

vars == <<now, flow, resp, codeVars, otherVars>>

(* ------------------------------ the cache ------------------------------ *)
NoEntry == [set |-> FALSE, expires |-> 0]

(* cache.get finds the entry while its timeout has not passed *)
CacheHit(e, t) == e.set /\ t <= e.expires

NoOtp == [set |-> FALSE, value |-> NoCode, expires |-> 0]

NoMarker == [set |-> FALSE, last_sent |-> 0, expires |-> 0]

NoAttempts == [set |-> FALSE, count |-> 0, first_attempt |-> 0, expires |-> 0]

(* cache.set(key, value, timeout=seconds) *)
CacheSetOtp(otp, t) == [set |-> TRUE, value |-> otp, expires |-> t + Seconds(OTP_TIMEOUT)]

(* cache.get(f"otp_2fa_{user.id}") *)
CacheGetOtp(e, t) == IF CacheHit(e, t) THEN e.value ELSE NoCode

(* cache.get(cache_key, {'count': 0, 'first_attempt': timezone.now()}) *)
AttemptsData(e, t) ==
    IF CacheHit(e, t) THEN [count |-> e.count, first_attempt |-> e.first_attempt]
                      ELSE [count |-> 0, first_attempt |-> t]

(* int(x) of a non-negative number of seconds held in ticks *)
IntSeconds(ticks) == ticks \div TicksPerSecond

(* --------------------------- rate_limiting.py -------------------------- *)
(* the cooldown test with <= : a call exactly limit_seconds later is refused *)
CheckEmailRateLimit_Inclusive(e, t, limit_seconds) ==
    LET elapsed == t - e.last_sent
    IN  IF CacheHit(e, t) /\ elapsed <= Seconds(limit_seconds)
        THEN [allowed |-> FALSE,
              wait_time |-> IntSeconds(Seconds(limit_seconds) - elapsed),
              marker |-> e]
        ELSE [allowed |-> TRUE, wait_time |-> 0,
              marker |-> [set |-> TRUE, last_sent |-> t,
                          expires |-> t + Seconds(limit_seconds)]]

(* the marker is written before the test, so a refused call renews it *)
CheckEmailRateLimit_RenewsOnReject(e, t, limit_seconds) ==
    LET elapsed == t - e.last_sent
        renewed == [set |-> TRUE, last_sent |-> t, expires |-> t + Seconds(limit_seconds)]
    IN  IF CacheHit(e, t) /\ elapsed < Seconds(limit_seconds)
        THEN [allowed |-> FALSE,
              wait_time |-> IntSeconds(Seconds(limit_seconds) - elapsed),
              marker |-> renewed]
        ELSE [allowed |-> TRUE, wait_time |-> 0, marker |-> renewed]

(* check_email_rate_limit: the decision and the marker it leaves behind *)
CheckEmailRateLimit(e, t, limit_seconds) ==
    LET elapsed == t - e.last_sent
    IN  IF CacheHit(e, t) /\ elapsed < Seconds(limit_seconds)
        THEN [allowed |-> FALSE,
              wait_time |-> IntSeconds(Seconds(limit_seconds) - elapsed),
              marker |-> e]
        ELSE [allowed |-> TRUE, wait_time |-> 0,
              marker |-> [set |-> TRUE, last_sent |-> t,
                          expires |-> t + Seconds(limit_seconds)]]

(* the window test with >= : the window closes at exactly window_minutes *)
CheckCodeAttemptLimit_ClosedWindow(e, t, max_attempts, window_minutes) ==
    LET data == AttemptsData(e, t)
        elapsed == t - data.first_attempt
        expired == elapsed >= Seconds(window_minutes * 60)
        current_attempts == IF expired THEN 0 ELSE data.count
    IN  IF current_attempts >= max_attempts
        THEN [allowed |-> FALSE, attempts_remaining |-> 0,
              reset_time |-> IntSeconds(Seconds(window_minutes * 60) - elapsed)]
        ELSE [allowed |-> TRUE,
              attempts_remaining |-> max_attempts - current_attempts,
              reset_time |-> 0]

(* the count test with > : one attempt more than max_attempts gets through *)
CheckCodeAttemptLimit_OneMore(e, t, max_attempts, window_minutes) ==
    LET data == AttemptsData(e, t)
        elapsed == t - data.first_attempt
        expired == elapsed > Seconds(window_minutes * 60)
        current_attempts == IF expired THEN 0 ELSE data.count
    IN  IF current_attempts > max_attempts
        THEN [allowed |-> FALSE, attempts_remaining |-> 0,
              reset_time |-> IntSeconds(Seconds(window_minutes * 60) - elapsed)]
        ELSE [allowed |-> TRUE,
              attempts_remaining |-> max_attempts - current_attempts,
              reset_time |-> 0]

(* check_code_attempt_limit *)
CheckCodeAttemptLimit(e, t, max_attempts, window_minutes) ==
    LET data == AttemptsData(e, t)
        elapsed == t - data.first_attempt
        expired == elapsed > Seconds(window_minutes * 60)
        current_attempts == IF expired THEN 0 ELSE data.count
    IN  IF current_attempts >= max_attempts
        THEN [allowed |-> FALSE, attempts_remaining |-> 0,
              reset_time |-> IntSeconds(Seconds(window_minutes * 60) - elapsed)]
        ELSE [allowed |-> TRUE,
              attempts_remaining |-> max_attempts - current_attempts,
              reset_time |-> 0]

(* increment_failed_attempts: the entry it stores *)
IncrementFailedAttempts(e, t, window_minutes) ==
    LET data == AttemptsData(e, t)
        elapsed == t - data.first_attempt
    IN  IF elapsed > Seconds(window_minutes * 60)
        THEN [set |-> TRUE, count |-> 1, first_attempt |-> t,
              expires |-> t + Seconds(window_minutes * 60)]
        ELSE [set |-> TRUE, count |-> data.count + 1,
              first_attempt |-> data.first_attempt,
              expires |-> t + Seconds(window_minutes * 60)]

(* the counter is left in the cache *)
ClearFailedAttempts_Keeps(e) == e

(* clear_failed_attempts: cache.delete *)
ClearFailedAttempts(e) == NoAttempts

(* ------------------------------ the account ---------------------------- *)
NoTime == 0 - 1

NoUser ==
    [exists |-> FALSE, password |-> 0, account_status |-> "none",
     is_2fa_enabled |-> FALSE, last_otp_sent_at |-> NoTime,
     is_email_verified |-> FALSE,
     email_verification_code |-> NoCode, email_verification_sent_at |-> NoTime,
     password_reset_code |-> NoCode, password_reset_sent_at |-> NoTime,
     invitation_code |-> NoCode, invitation_sent_at |-> NoTime]

(* the purpose (cache-key namespace, model field) an endpoint works on *)
PurposeOf(v) ==
    CASE v \in {"forgot_password", "reset_password"} -> "password_reset"
      [] v \in {"resend_verification", "verify_email"} -> "email_verification"
      [] v \in {"patient_register", "login", "verify_otp"} -> "otp"
      [] OTHER -> "none"

(* resp: the last request and the response to it *)
NoResp == [view |-> "none", purpose |-> "none", code |-> NoCode, status |-> "none",
           wait |-> 0]

Response(v, c, s, w) ==
    [view |-> v, purpose |-> PurposeOf(v), code |-> c, status |-> s, wait |-> w]

(* --------------------------- history variables ------------------------- *)
(* issued[p]: the code issued last for purpose p, when, the code issued    *)
(* before it, the successful verifications with it, and whether any        *)
(* verification succeeded with another code than the one issued last.      *)
NoIssue == [code |-> NoCode, at |-> NoTime, prev |-> NoCode, uses |-> 0, stray |-> FALSE]

NoteIssue(h, c, t) == [code |-> c, at |-> t, prev |-> h.code, uses |-> 0, stray |-> h.stray]

NoteSuccess(h, c) ==
    IF c = h.code THEN [h EXCEPT !.uses = IF h.uses < 2 THEN h.uses + 1 ELSE 2]
                  ELSE [h EXCEPT !.stray = TRUE]

(* fails[p]: the attempt window as an observer of the responses keeps it:  *)
(* n failed verifications since the window opened at first, wrong of them  *)
(* compared a wrong code with a live one.  A success closes the window.    *)
NoFails == [n |-> 0, first |-> 0, wrong |-> 0, cleared |-> 0]

(* a success wipes the window; cleared remembers how many failures it held *)
NoteCleared(f) == [NoFails EXCEPT !.cleared = f.n]

WindowTicks == Seconds(WINDOW_MINUTES * 60)

Bump(k) == IF k < MaxFailures THEN k + 1 ELSE MaxFailures

NoteFailure(f, t, wrongLive) ==
    IF f.n = 0 \/ t - f.first > WindowTicks
    THEN [n |-> 1, first |-> t, wrong |-> IF wrongLive THEN 1 ELSE 0, cleared |-> 0]
    ELSE [n |-> Bump(f.n), first |-> f.first,
          wrong |-> IF wrongLive THEN Bump(f.wrong) ELSE f.wrong, cleared |-> 0]

(* ------------------------ the cache under its keys --------------------- *)
(* Strings are sequences of pieces; an e-mail address is one piece, in the *)
(* case it was typed in.                                                   *)
Emails == {<<"a@b.c">>, <<"A@b.c">>}

(* str.lower() of one piece *)
LowerPiece(x) == IF x = "A@b.c" THEN "a@b.c" ELSE x

(* str.lower() *)
Lower(str) == [i \in 1..Len(str) |-> LowerPiece(str[i])]

(* the action names the views pass to the limiter *)
ActionName(a) == <<a>>

(* the key without the action: every action of an address shares one entry *)
EmailRateKey_NoAction(action, email) == <<"email_rate_limit", ":">> \o Lower(email)

(* f"email_rate_limit:{action}:{email.lower()}" *)
EmailRateKey(action, email) ==
    <<"email_rate_limit", ":">> \o action \o <<":">> \o Lower(email)

(* f"code_attempts:{action}:{identifier.lower()}" *)
CodeAttemptsKey(action, identifier) ==
    <<"code_attempts", ":">> \o action \o <<":">> \o Lower(identifier)

(* the cache table before any set *)
EmptyCache == [k \in {} |-> NoEntry]

(* cache.get(key, default) *)
CacheGet(c, k, default, t) ==
    IF k \in DOMAIN c /\ CacheHit(c[k], t) THEN c[k] ELSE default

(* cache.set(key, value, timeout) *)
CacheSet(c, k, e) == [x \in DOMAIN c \cup {k} |-> IF x = k THEN e ELSE c[x]]

(* cache.delete(key) *)
CacheDelete(c, k) == [x \in DOMAIN c \ {k} |-> c[x]]

(* the rows whose timeout has passed are gone *)
CacheCull(c, t) == [x \in {k \in DOMAIN c : t <= c[k].expires} |-> c[x]]

(* ----------------------------- invitations ----------------------------- *)
(* invites[c]: the PatientInvite row with invitation_code c, if any *)
NoInvite == [exists |-> FALSE, is_used |-> FALSE, sent_at |-> NoTime, expires_at |-> NoTime]

(* inviteLog[c]: when the invitation with code c was created, how long it  *)
(* is good for, how many account setups it completed and whether one of    *)
(* them came after its expiry                                              *)
NoInviteLog == [at |-> NoTime, ttl |-> 0, setups |-> 0, late |-> FALSE]

NoteInvite(c, t, ttl) ==
    [inviteLog EXCEPT ![c] = [at |-> t, ttl |-> ttl, setups |-> 0, late |-> FALSE]]

NoteSetup(c, t) ==
    [inviteLog EXCEPT ![c] = [@ EXCEPT !.setups = IF @ < 2 THEN @ + 1 ELSE 2,
                                       !.late = @ \/ t - inviteLog[c].at > inviteLog[c].ttl]]

(* -------------------------- document pipeline -------------------------- *)
RunIds == 1..MaxRuns

ChunkIds == 1..MaxChunks

(* what generate_insights can return as insights: 1..NumInsights *)
Insights == 1..NumInsights

(* ask: one call of generate_insights(doc_id, patient_id): the chunks the  *)
(* patient's index holds under this document's tag and under another       *)
(* document's (stock, chunk_index 0..n-1 kept as 1..n), the characters in   *)
(* a chunk (chars), the matches index.query returned and the text put into *)
(* the prompt, as the pieces of chunks it is made of                       *)
NoAsk == [pc |-> "idle", stock |-> <<>>, chars |-> 0, matches |-> {}, text |-> {}]

(* links[t]: the DocumentUploadLink row with token t, and how many         *)
(* PatientDocument rows have been created through it (files)               *)
NoLink == [exists |-> FALSE, is_used |-> FALSE, expires_at |-> 0, files |-> 0]

(* setup[w]: the StaffSetupAccountView request of worker w: where it is,   *)
(* the code and the password it carries, and its answer                    *)
NoSetup == [pc |-> "idle", code |-> NoCode, password |-> 0, status |-> "none"]

(* twin: one document of each kind put through its pipeline with the same  *)
(* stage outcomes (given), from the same state (before: ai_processed, the  *)
(* insight stored, 0 for none); clinic and portal are what process_document *)
(* and _process_patient_document leave, once they have run                 *)
NoTwin == [pc |-> "idle", given |-> <<>>, before |-> <<>>, clinic |-> <<>>,
           portal |-> <<>>]

(* the doctors' email addresses; NoDoctor: no primary doctor configured *)
Doctors == {"a", "b"}

NoDoctor == "none"

(* shares: one patient-portal document and its sharing: the                *)
(* UploadedDocument row (doc: none, stored, deleted), the patient's        *)
(* doctor_email (primary), the DocumentShare row per doctor email (none,   *)
(* active, revoked) and the SharedPatientDocument row with the document's  *)
(* id (shared: exists, doctor_email, is_active)                            *)
NoShared == [exists |-> FALSE, doctor_email |-> NoDoctor, is_active |-> FALSE]

NoShares == [doc |-> "none", primary |-> NoDoctor, share |-> [e \in Doctors |-> "none"],
             shared |-> NoShared]

(* doc: the PatientDocument / UploadedDocument row *)
NoDoc == [exists |-> FALSE, ai_processed |-> FALSE, ai_readable |-> FALSE]

(* toggle: the AIToggleView request in flight: the row as it loaded it     *)
(* (copy), and the flag as it was before the last toggle that completed    *)
(* (was, empty before the first)                                           *)
NoToggle == [copy |-> NoDoc, was |-> <<>>]

(* runs: the pipeline runs started on the document so far, in order.       *)
(* runs[r]: the r-th pipeline run on the document: where it is, whether the *)
(* insights GET started it, the locals of chunk_and_embed_document (n      *)
(* chunks, k of them embedded, u of them upserted), the insights_data it   *)
(* holds (0: None or empty), and what it did: whether its embedding        *)
(* raised, whether json.loads raised on the model's reply, whether it      *)
(* wrote the insight row, whether it set ai_processed.                     *)
NoRun == [pc |-> "extract", via_get |-> FALSE, n |-> 0, k |-> 0, u |-> 0, data |-> 0,
          embed_failed |-> FALSE, parse_failed |-> FALSE, wrote |-> FALSE,
          marked |-> FALSE]

NewRun(viaGet) == [NoRun EXCEPT !.via_get = viaGet]

Active(run) == run.pc # "done"

(* the run number the next thread gets *)
NextRunId == Len(runs) + 1

(* index.upsert of the vectors of the chunks in ids, by run r, into vecs:  *)
(* a vector with the id of a stored one replaces it                        *)
Upserted(vecs, ids, r) ==
    [i \in DOMAIN vecs \cup ids |-> IF i \in ids THEN r ELSE vecs[i]]

(* -------------------------------- Init --------------------------------- *)
InitCommon ==
    /\ now = 0
    /\ cache = EmptyCache
    /\ invites = [c \in Codes |-> NoInvite]
    /\ inviteLog = [c \in Codes |-> NoInviteLog]
    /\ doc = NoDoc
    /\ insightRows = <<>>
    /\ vectors = <<>>
    /\ runs = <<>>
    /\ processing = FALSE
    /\ handler = <<>>
    /\ stored = 0
    /\ delivery = "none"
    /\ ask = NoAsk
    /\ toggle = NoToggle
    /\ links = [t \in Codes |-> NoLink]
    /\ setup = [w \in Workers |-> NoSetup]
    /\ twin = NoTwin
    /\ shares = NoShares
    /\ otpCache = NoOtp
    /\ attempts = [a \in Actions |-> NoAttempts]
    /\ rateMarker = [a \in Actions |-> NoMarker]
    /\ resp = NoResp
    /\ issued = [p \in Purposes |-> NoIssue]
    /\ lastAllowed = [a \in Actions |-> NoTime]
    /\ fails = [p \in Purposes |-> NoFails]
    /\ pc = [w \in Workers |-> "idle"]
    /\ seen = [w \in Workers |-> NoMarker]
    /\ granted = [w \in Workers |-> NoTime]

(* UserManager.create_user: an account made outside the views (manage.py  *)
(* createsuperuser, the admin site), all other fields at their defaults    *)
CreateUser(pw) ==
    [NoUser EXCEPT !.exists = TRUE, !.password = pw, !.account_status = "active"]

Init ==
    /\ InitCommon
    /\ flow \in Flows
    /\ user \in {NoUser, CreateUser(1)}

(* the cache drops an entry whose timeout has passed *)
Expire(e, none, t) == IF e.set /\ t > e.expires THEN none ELSE e

(* a window that has lapsed is no window *)
Lapse(f, t) == IF f.n = 0 \/ t - f.first > WindowTicks THEN NoFails ELSE f

(* the clock moves to the next instant at which it is observed *)
Tick ==
    /\ \E t \in ClockMarks(flow) :
          /\ t > now
          /\ \A m \in ClockMarks(flow) : m > now => t <= m
          /\ now' = t
    /\ otpCache' = Expire(otpCache, NoOtp, now')
    /\ attempts' = [a \in Actions |-> Expire(attempts[a], NoAttempts, now')]
    /\ rateMarker' = [a \in Actions |-> Expire(rateMarker[a], NoMarker, now')]
    /\ fails' = [p \in Purposes |-> Lapse(fails[p], now')]
    /\ cache' = CacheCull(cache, now')
    /\ resp' = NoResp
    /\ delivery' = "none"
    /\ UNCHANGED <<flow, user, issued, lastAllowed, pc, seen, granted>>
    /\ UNCHANGED stillVars

(* ------------------------- the e-mail / SMS sender --------------------- *)
(* what a send can come to: the message went out, the sender function      *)
(* caught the failure and returned False, or it raised                     *)
SendOutcomes == {"sent", "failed"}

SendOutcomesRaising == SendOutcomes \cup {"raised"}

(* delivery remembers what the last send came to while the requests that   *)
(* follow are verifications that succeed; r: the response of this request  *)
Remembered(r) == IF r.status \in {"ok", "tokens"} THEN delivery ELSE "none"

(* a failed send undoes what the request had stored *)
AfterSend_RollsBack(before, after, outcome) == IF outcome = "sent" THEN after ELSE before

(* the request saves before it sends and no caller undoes the save: what   *)
(* it stored stays whatever the send comes to                              *)
AfterSend(before, after, outcome) == after

(* --------------------- password reset (authentication) ----------------- *)
(* the expiry check against the wrong setting (the 7-day invitation expiry) *)
CodeExpired_WrongSetting(sent_at, t, expiry) ==
    sent_at # NoTime /\ t - sent_at > Seconds(INVITATION_EXPIRY)

(* the stored code has outlived its expiry *)
CodeExpired(sent_at, t, expiry) == sent_at # NoTime /\ t - sent_at > Seconds(expiry)

(* a code still stored is kept, only its timestamp renewed *)
IssueResetCode_KeepsStored(u, c, t) ==
    IF u.password_reset_code # NoCode
    THEN [u EXCEPT !.password_reset_sent_at = t]
    ELSE [u EXCEPT !.password_reset_code = c, !.password_reset_sent_at = t]

(* a freshly issued code replaces the stored one *)
IssueResetCode(u, c, t) ==
    [u EXCEPT !.password_reset_code = c, !.password_reset_sent_at = t]

(* the password is set, the code stays *)
ConsumeResetCode_KeepsCode(u, pw) == [u EXCEPT !.password = pw]

(* a successful reset sets the password and clears the code *)
ConsumeResetCode(u, pw) ==
    [u EXCEPT !.password = pw, !.password_reset_code = NoCode,
              !.password_reset_sent_at = NoTime]

(* ForgotPasswordView.post *)
ForgotPassword(c) ==
    /\ flow = "password_reset"
    /\ LET r == CheckEmailRateLimit(rateMarker["password_reset"], now, LIMIT_SECONDS)
       IN  /\ rateMarker' = [rateMarker EXCEPT !["password_reset"] = r.marker]
           /\ IF ~r.allowed
              THEN /\ resp' = Response("forgot_password", NoCode, "rate_limited", r.wait_time)
                   /\ delivery' = "none"
                   /\ UNCHANGED <<user, issued, lastAllowed>>
              ELSE /\ lastAllowed' = [lastAllowed EXCEPT !["password_reset"] = now]
                   /\ resp' = Response("forgot_password", NoCode, "ok", 0)
                   /\ IF user.exists
                      THEN \E outcome \in SendOutcomes :
                              /\ user' = AfterSend(user, IssueResetCode(user, c, now),
                                                   outcome)
                              /\ issued' = [issued EXCEPT !["password_reset"] =
                                               NoteIssue(@, c, now)]
                              /\ delivery' = outcome
                      ELSE /\ delivery' = "none"
                           /\ UNCHANGED <<user, issued>>
    /\ UNCHANGED <<now, flow, otpCache, attempts, fails, pc, seen, granted>>
    /\ UNCHANGED <<cache, stillVars>>

(* ResetPasswordView.post *)
ResetPassword(c, pw) ==
    /\ flow = "password_reset"
    /\ LET lim == CheckCodeAttemptLimit(attempts["password_reset"], now,
                                        MAX_ATTEMPTS, WINDOW_MINUTES)
           failed == [attempts EXCEPT !["password_reset"] =
                         IncrementFailedAttempts(@, now, WINDOW_MINUTES)]
       IN  IF ~lim.allowed
           THEN /\ resp' = Response("reset_password", c, "rate_limited", lim.reset_time)
                /\ UNCHANGED <<user, attempts, issued, fails>>
           ELSE IF ~user.exists
           THEN /\ attempts' = failed
                /\ fails' = [fails EXCEPT !["password_reset"] = NoteFailure(@, now, FALSE)]
                /\ resp' = Response("reset_password", c, "invalid", 0)
                /\ UNCHANGED <<user, issued>>
           ELSE IF user.password_reset_code = NoCode \/ user.password_reset_code # c
           THEN /\ attempts' = failed
                /\ fails' = [fails EXCEPT !["password_reset"] =
                                NoteFailure(@, now, user.password_reset_code # NoCode)]
                /\ resp' = Response("reset_password", c, "invalid", 0)
                /\ UNCHANGED <<user, issued>>
           ELSE IF CodeExpired(user.password_reset_sent_at, now, PASSWORD_RESET_EXPIRY)
           THEN /\ resp' = Response("reset_password", c, "expired", 0)
                /\ UNCHANGED <<user, attempts, issued, fails>>
           ELSE /\ user' = ConsumeResetCode(user, pw)
                /\ attempts' = [attempts EXCEPT !["password_reset"] = ClearFailedAttempts(@)]
                /\ fails' = [fails EXCEPT !["password_reset"] = NoteCleared(@)]
                /\ issued' = [issued EXCEPT !["password_reset"] = NoteSuccess(@, c)]
                /\ resp' = Response("reset_password", c, "ok", 0)
    /\ UNCHANGED <<now, flow, otpCache, rateMarker, lastAllowed, pc, seen, granted>>
    /\ delivery' = Remembered(resp')
    /\ UNCHANGED <<cache, stillVars>>

(* ------------------- e-mail verification (authentication) -------------- *)
IssueEmailCode(u, c, t) ==
    [u EXCEPT !.email_verification_code = c, !.email_verification_sent_at = t]

ConsumeEmailCode(u) ==
    [u EXCEPT !.is_email_verified = TRUE, !.email_verification_code = NoCode,
              !.email_verification_sent_at = NoTime]

(* ResendEmailVerificationView.post *)
ResendEmailVerification(c) ==
    /\ flow = "email_verification"
    /\ LET r == CheckEmailRateLimit(rateMarker["email_verification"], now, LIMIT_SECONDS)
       IN  /\ rateMarker' = [rateMarker EXCEPT !["email_verification"] = r.marker]
           /\ IF ~r.allowed
              THEN /\ resp' = Response("resend_verification", NoCode, "rate_limited",
                                       r.wait_time)
                   /\ delivery' = "none"
                   /\ UNCHANGED <<user, issued, lastAllowed>>
              ELSE /\ lastAllowed' = [lastAllowed EXCEPT !["email_verification"] = now]
                   /\ IF ~user.exists
                      THEN /\ resp' = Response("resend_verification", NoCode, "ok", 0)
                           /\ delivery' = "none"
                           /\ UNCHANGED <<user, issued>>
                      ELSE IF user.is_email_verified
                      THEN /\ resp' = Response("resend_verification", NoCode,
                                               "already_verified", 0)
                           /\ delivery' = "none"
                           /\ UNCHANGED <<user, issued>>
                      ELSE \E outcome \in SendOutcomesRaising :
                              /\ user' = AfterSend(user, IssueEmailCode(user, c, now),
                                                   outcome)
                              /\ issued' = [issued EXCEPT !["email_verification"] =
                                               NoteIssue(@, c, now)]
                              /\ delivery' = outcome
                              /\ resp' = Response("resend_verification", NoCode,
                                                  IF outcome = "raised" THEN "send_failed"
                                                  ELSE "ok", 0)
    /\ UNCHANGED <<now, flow, otpCache, attempts, fails, pc, seen, granted>>
    /\ UNCHANGED <<cache, stillVars>>

(* VerifyEmailView.post *)
VerifyEmail(c) ==
    /\ flow = "email_verification"
    /\ LET lim == CheckCodeAttemptLimit(attempts["email_verification"], now,
                                        MAX_ATTEMPTS, WINDOW_MINUTES)
           failed == [attempts EXCEPT !["email_verification"] =
                         IncrementFailedAttempts(@, now, WINDOW_MINUTES)]
       IN  IF ~lim.allowed
           THEN /\ resp' = Response("verify_email", c, "rate_limited", lim.reset_time)
                /\ UNCHANGED <<user, attempts, issued, fails>>
           ELSE IF ~user.exists
           THEN /\ attempts' = failed
                /\ fails' = [fails EXCEPT !["email_verification"] =
                                NoteFailure(@, now, FALSE)]
                /\ resp' = Response("verify_email", c, "invalid", 0)
                /\ UNCHANGED <<user, issued>>
           ELSE IF user.email_verification_code = NoCode
                   \/ user.email_verification_code # c
           THEN /\ attempts' = failed
                /\ fails' = [fails EXCEPT !["email_verification"] =
                                NoteFailure(@, now, user.email_verification_code # NoCode)]
                /\ resp' = Response("verify_email", c, "invalid", 0)
                /\ UNCHANGED <<user, issued>>
           ELSE IF CodeExpired(user.email_verification_sent_at, now,
                               EMAIL_VERIFICATION_EXPIRY)
           THEN /\ resp' = Response("verify_email", c, "expired", 0)
                /\ UNCHANGED <<user, attempts, issued, fails>>
           ELSE /\ user' = ConsumeEmailCode(user)
                /\ attempts' = [attempts EXCEPT !["email_verification"] =
                                   ClearFailedAttempts(@)]
                /\ fails' = [fails EXCEPT !["email_verification"] = NoteCleared(@)]
                /\ issued' = [issued EXCEPT !["email_verification"] = NoteSuccess(@, c)]
                /\ resp' = Response("verify_email", c, "ok", 0)
    /\ UNCHANGED <<now, flow, otpCache, rateMarker, lastAllowed, pc, seen, granted>>
    /\ delivery' = Remembered(resp')
    /\ UNCHANGED <<cache, stillVars>>

(* cleanup_expired_codes: Command.handle *)
SweptUser(u, t) ==
    LET a == IF u.email_verification_code # NoCode
                /\ u.email_verification_sent_at # NoTime
                /\ u.email_verification_sent_at < t - Seconds(EMAIL_VERIFICATION_EXPIRY)
             THEN [u EXCEPT !.email_verification_code = NoCode,
                            !.email_verification_sent_at = NoTime]
             ELSE u
        b == IF a.password_reset_code # NoCode
                /\ a.password_reset_sent_at # NoTime
                /\ a.password_reset_sent_at < t - Seconds(PASSWORD_RESET_EXPIRY)
             THEN [a EXCEPT !.password_reset_code = NoCode,
                            !.password_reset_sent_at = NoTime]
             ELSE a
        d == IF b.account_status = "pending"
                /\ b.invitation_code # NoCode
                /\ b.invitation_sent_at # NoTime
                /\ b.invitation_sent_at < t - Seconds(INVITATION_EXPIRY)
             THEN [b EXCEPT !.account_status = "inactive",
                            !.invitation_code = NoCode,
                            !.invitation_sent_at = NoTime]
             ELSE b
    IN  d

CleanupExpiredCodes ==
    /\ flow \in Actions \cup {"staff_invite"}
    /\ user.exists
    /\ user' = SweptUser(user, now)
    /\ user' # user
    /\ resp' = Response("cleanup", NoCode, "ok", 0)
    /\ delivery' = "none"
    /\ UNCHANGED <<now, flow, otpCache, attempts, rateMarker, issued, lastAllowed,
                   fails, pc, seen, granted>>
    /\ UNCHANGED <<cache, stillVars>>

(* ----------------------------- OTP (2FA) ------------------------------- *)
(* PatientRegisterView.post: creates the account, pending, with an OTP *)
PatientRegister(pw, otp) ==
    /\ flow = "otp"
    /\ ~user.exists
    /\ user' = [NoUser EXCEPT !.exists = TRUE, !.password = pw,
                              !.account_status = "pending",
                              !.is_2fa_enabled = TRUE,
                              !.last_otp_sent_at = now]
    /\ \E outcome \in SendOutcomes :
          /\ otpCache' = AfterSend(otpCache, CacheSetOtp(otp, now), outcome)
          /\ delivery' = outcome
    /\ issued' = [issued EXCEPT !["otp"] = NoteIssue(@, otp, now)]
    /\ resp' = Response("patient_register", NoCode, "ok", 0)
    /\ UNCHANGED <<now, flow, attempts, rateMarker, lastAllowed, fails, pc, seen, granted>>
    /\ UNCHANGED <<cache, stillVars>>

(* django.contrib.auth.authenticate over AUTHENTICATION_BACKENDS:          *)
(* EmailOrMobileBackend refuses a pending account; ModelBackend, tried     *)
(* next, looks the identifier up as the mobile number (USERNAME_FIELD).    *)
Authenticate(u, ident, pw) ==
    /\ u.exists
    /\ pw = u.password
    /\ \/ u.account_status # "pending"
       \/ ident = "mobile"

(* LoginView.post *)
Login(ident, pw, otp) ==
    /\ flow \in LoginFlows
    /\ IF ~Authenticate(user, ident, pw)
       THEN /\ resp' = Response("login", NoCode, "unauthorized", 0)
            /\ delivery' = "none"
            /\ UNCHANGED <<user, otpCache, issued>>
       ELSE IF user.account_status = "pending"
       THEN /\ resp' = Response("login", NoCode, "forbidden", 0)
            /\ delivery' = "none"
            /\ UNCHANGED <<user, otpCache, issued>>
       ELSE IF user.is_2fa_enabled
       THEN IF user.last_otp_sent_at # NoTime
               /\ now - user.last_otp_sent_at < Seconds(OTP_RESEND_SECONDS)
            THEN /\ resp' = Response("login", NoCode, "rate_limited", 0)
                 /\ delivery' = "none"
                 /\ UNCHANGED <<user, otpCache, issued>>
            ELSE /\ \E outcome \in SendOutcomes :
                       /\ otpCache' = AfterSend(otpCache, CacheSetOtp(otp, now), outcome)
                       /\ delivery' = outcome
                 /\ user' = [user EXCEPT !.last_otp_sent_at = now]
                 /\ issued' = [issued EXCEPT !["otp"] = NoteIssue(@, otp, now)]
                 /\ resp' = Response("login", NoCode, "otp_required", 0)
       ELSE /\ resp' = Response("login", NoCode, "tokens", 0)
            /\ delivery' = "none"
            /\ UNCHANGED <<user, otpCache, issued>>
    /\ UNCHANGED <<now, flow, attempts, rateMarker, lastAllowed, fails, pc, seen, granted>>
    /\ UNCHANGED <<cache, stillVars>>

(* VerifyOTPView.post *)
VerifyOTP(otp) ==
    /\ flow \in LoginFlows
    /\ LET cached_otp == IF otp = BypassOtp /\ DEBUG THEN BypassOtp
                         ELSE CacheGetOtp(otpCache, now)
       IN  IF ~user.exists
           THEN /\ resp' = Response("verify_otp", otp, "not_found", 0)
                /\ fails' = [fails EXCEPT !["otp"] = NoteFailure(@, now, FALSE)]
                /\ UNCHANGED <<user, otpCache, issued>>
           ELSE IF cached_otp # NoCode /\ cached_otp = otp
           THEN /\ user' = [user EXCEPT
                      !.last_otp_sent_at = IF user.is_2fa_enabled THEN @ ELSE now,
                      !.is_2fa_enabled = TRUE,
                      !.account_status = IF @ = "pending" THEN "active" ELSE @]
                /\ otpCache' = NoOtp
                /\ issued' = [issued EXCEPT !["otp"] = NoteSuccess(@, otp)]
                /\ fails' = [fails EXCEPT !["otp"] = NoteCleared(@)]
                /\ resp' = Response("verify_otp", otp, "tokens", 0)
           ELSE /\ resp' = Response("verify_otp", otp, "invalid", 0)
                /\ fails' = [fails EXCEPT !["otp"] =
                                NoteFailure(@, now, cached_otp # NoCode)]
                /\ UNCHANGED <<user, otpCache, issued>>
    /\ UNCHANGED <<now, flow, attempts, rateMarker, lastAllowed, pc, seen, granted>>
    /\ delivery' = Remembered(resp')
    /\ UNCHANGED <<cache, stillVars>>

(* ------------------------- the request/response system ----------------- *)
Next ==
    \/ Tick
    \/ \E pw \in Passwords, otp \in Codes : PatientRegister(pw, otp)
    \/ \E c \in Codes : ForgotPassword(c)
    \/ \E c \in Codes, pw \in Passwords : ResetPassword(c, pw)
    \/ \E c \in Codes : ResendEmailVerification(c)
    \/ \E c \in Codes : VerifyEmail(c)
    \/ CleanupExpiredCodes
    \/ \E ident \in {"email", "mobile"}, pw \in Passwords, otp \in Codes :
          Login(ident, pw, otp)
    \/ \E otp \in Codes : VerifyOTP(otp)

Spec == Init /\ [][Next]_vars

(* ------------------- the limiter functions called directly ------------- *)
(* a behaviour calls either the cooldown function or the attempt functions *)
InitLimiter ==
    /\ InitCommon
    /\ flow \in {"cooldown", "attempts"}
    /\ user = NoUser

(* check_email_rate_limit(email, action, limit_seconds=60) *)
LimCheckEmail(a) ==
    /\ flow = "cooldown"
    /\ LET r == CheckEmailRateLimit(rateMarker[a], now, LIMIT_SECONDS)
       IN  /\ rateMarker' = [rateMarker EXCEPT ![a] = r.marker]
           /\ lastAllowed' = IF r.allowed THEN [lastAllowed EXCEPT ![a] = now]
                             ELSE lastAllowed
           /\ resp' = [view |-> "check_email_rate_limit", purpose |-> a,
                       code |-> NoCode,
                       status |-> IF r.allowed THEN "ok" ELSE "rate_limited",
                       wait |-> r.wait_time]
    /\ UNCHANGED <<now, flow, user, otpCache, attempts, issued, fails, pc, seen, granted>>
    /\ UNCHANGED otherVars

(* increment_failed_attempts(identifier, action) *)
LimIncrement(a) ==
    /\ flow = "attempts"
    /\ fails[a].n < MaxFailures
    /\ attempts[a].count < MaxFailures
    /\ attempts' = [attempts EXCEPT ![a] = IncrementFailedAttempts(@, now, WINDOW_MINUTES)]
    /\ fails' = [fails EXCEPT ![a] = NoteFailure(@, now, FALSE)]
    /\ resp' = [view |-> "increment_failed_attempts", purpose |-> a, code |-> NoCode,
                status |-> "ok", wait |-> 0]
    /\ UNCHANGED <<now, flow, user, otpCache, rateMarker, issued, lastAllowed,
                   pc, seen, granted>>
    /\ UNCHANGED otherVars

(* clear_failed_attempts(identifier, action) *)
LimClear(a) ==
    /\ flow = "attempts"
    /\ attempts[a].set
    /\ attempts' = [attempts EXCEPT ![a] = ClearFailedAttempts(@)]
    /\ fails' = [fails EXCEPT ![a] = NoteCleared(@)]
    /\ resp' = [view |-> "clear_failed_attempts", purpose |-> a, code |-> NoCode,
                status |-> "ok", wait |-> 0]
    /\ UNCHANGED <<now, flow, user, otpCache, rateMarker, issued, lastAllowed,
                   pc, seen, granted>>
    /\ UNCHANGED otherVars

NextLimiter ==
    \/ Tick
    \/ \E a \in Actions : LimCheckEmail(a)
    \/ \E a \in Actions : LimIncrement(a)
    \/ \E a \in Actions : LimClear(a)

SpecLimiter == InitLimiter /\ [][NextLimiter]_vars

(* -------- two requests inside check_email_rate_limit at once ----------- *)
RaceAction == "password_reset"

InitRace ==
    /\ InitCommon
    /\ flow = "race"
    /\ user = NoUser

(* line 23: last_sent = cache.get(cache_key) *)
RaceGet(w) ==
    /\ flow = "race"
    /\ pc[w] = "idle"
    /\ seen' = [seen EXCEPT ![w] = IF CacheHit(rateMarker[RaceAction], now)
                                   THEN rateMarker[RaceAction] ELSE NoMarker]
    /\ pc' = [pc EXCEPT ![w] = "got"]
    /\ resp' = NoResp
    /\ UNCHANGED <<now, flow, user, otpCache, attempts, rateMarker, issued,
                   lastAllowed, fails, granted>>
    /\ UNCHANGED otherVars

(* lines 25-33: the decision on the value read, and cache.set when allowed *)
RaceDecide(w) ==
    /\ flow = "race"
    /\ pc[w] = "got"
    /\ LET elapsed == now - seen[w].last_sent
       IN  IF seen[w].set /\ elapsed < Seconds(LIMIT_SECONDS)
           THEN /\ resp' = [view |-> "check_email_rate_limit", purpose |-> RaceAction,
                            code |-> NoCode, status |-> "rate_limited",
                            wait |-> IntSeconds(Seconds(LIMIT_SECONDS) - elapsed)]
                /\ UNCHANGED <<rateMarker, granted>>
           ELSE /\ rateMarker' = [rateMarker EXCEPT ![RaceAction] =
                                     [set |-> TRUE, last_sent |-> now,
                                      expires |-> now + Seconds(LIMIT_SECONDS)]]
                /\ granted' = [granted EXCEPT ![w] = now]
                /\ resp' = [view |-> "check_email_rate_limit", purpose |-> RaceAction,
                            code |-> NoCode, status |-> "ok", wait |-> 0]
    /\ pc' = [pc EXCEPT ![w] = "idle"]
    /\ UNCHANGED <<now, flow, user, otpCache, attempts, issued, lastAllowed, fails, seen>>
    /\ UNCHANGED otherVars

NextRace ==
    \/ Tick
    \/ \E w \in Workers : RaceGet(w)
    \/ \E w \in Workers : RaceDecide(w)

SpecRace == InitRace /\ [][NextRace]_vars

(* ---------- the limiter functions on the cache under its keys ---------- *)
InitKeys ==
    /\ InitCommon
    /\ flow = "keys"
    /\ user = NoUser

(* what check_email_rate_limit(email, action) would return on cache c *)
EmailRateResult(c, a, email, t) ==
    LET r == CheckEmailRateLimit(
                 CacheGet(c, EmailRateKey(ActionName(a), email), NoMarker, t),
                 t, LIMIT_SECONDS)
    IN  <<r.allowed, r.wait_time>>

(* what check_code_attempt_limit(identifier, action) would return on cache c *)
CodeAttemptResult(c, a, identifier, t) ==
    LET r == CheckCodeAttemptLimit(
                 CacheGet(c, CodeAttemptsKey(ActionName(a), identifier), NoAttempts, t),
                 t, MAX_ATTEMPTS, WINDOW_MINUTES)
    IN  <<r.allowed, r.attempts_remaining, r.reset_time>>

(* check_email_rate_limit(email, action) *)
KeyCheckEmail(a, email) ==
    /\ flow = "keys"
    /\ LET k == EmailRateKey(ActionName(a), email)
           r == CheckEmailRateLimit(CacheGet(cache, k, NoMarker, now), now, LIMIT_SECONDS)
       IN  /\ cache' = IF r.allowed THEN CacheSet(cache, k, r.marker) ELSE cache
           /\ resp' = [view |-> "check_email_rate_limit", purpose |-> a,
                       code |-> NoCode,
                       status |-> IF r.allowed THEN "ok" ELSE "rate_limited",
                       wait |-> r.wait_time]
    /\ UNCHANGED <<now, flow, codeVars, stillVars, delivery>>

(* increment_failed_attempts(identifier, action) *)
KeyIncrement(a, identifier) ==
    /\ flow = "keys"
    /\ LET k == CodeAttemptsKey(ActionName(a), identifier)
           e == CacheGet(cache, k, NoAttempts, now)
       IN  /\ e.count < MaxFailures
           /\ cache' = CacheSet(cache, k, IncrementFailedAttempts(e, now, WINDOW_MINUTES))
    /\ resp' = [view |-> "increment_failed_attempts", purpose |-> a, code |-> NoCode,
                status |-> "ok", wait |-> 0]
    /\ UNCHANGED <<now, flow, codeVars, stillVars, delivery>>

(* clear_failed_attempts(identifier, action) *)
KeyClear(a, identifier) ==
    /\ flow = "keys"
    /\ CodeAttemptsKey(ActionName(a), identifier) \in DOMAIN cache
    /\ cache' = CacheDelete(cache, CodeAttemptsKey(ActionName(a), identifier))
    /\ resp' = [view |-> "clear_failed_attempts", purpose |-> a, code |-> NoCode,
                status |-> "ok", wait |-> 0]
    /\ UNCHANGED <<now, flow, codeVars, stillVars, delivery>>

NextKeys ==
    \/ Tick
    \/ \E a \in Actions, email \in Emails : KeyCheckEmail(a, email)
    \/ \E a \in Actions, identifier \in Emails : KeyIncrement(a, identifier)
    \/ \E a \in Actions, identifier \in Emails : KeyClear(a, identifier)

SpecKeys == InitKeys /\ [][NextKeys]_vars

(* ------------------------- invitation and setup ------------------------ *)
InitInvite ==
    /\ InitCommon
    /\ flow \in {"staff_invite", "patient_invite"}
    /\ user \in {NoUser, CreateUser(1)}

InviteResponse(v, c, s) ==
    [view |-> v, purpose |-> "invitation", code |-> c, status |-> s, wait |-> 0]

(* the staff invitation never runs out *)
InvitationExpired_Never(sent_at, t) == FALSE

(* elapsed > settings.INVITATION_EXPIRY, skipped when invitation_sent_at is null *)
InvitationExpired(sent_at, t) ==
    sent_at # NoTime /\ t - sent_at > Seconds(INVITATION_EXPIRY)

(* User.objects.get(invitation_code=c, account_status='pending') finds the account *)
PendingInvitee(u, c) ==
    u.exists /\ c # NoCode /\ u.invitation_code = c /\ u.account_status = "pending"

(* StaffSerializer.create: the invited account, pending, with its code *)
StaffCreate(c) ==
    /\ flow \in StaffFlows
    /\ ~user.exists
    /\ \E outcome \in SendOutcomes :
          /\ user' = AfterSend(user,
                               [NoUser EXCEPT !.exists = TRUE,
                                              !.account_status = "pending",
                                              !.invitation_code = c,
                                              !.invitation_sent_at = now],
                               outcome)
          /\ delivery' = outcome
    /\ inviteLog' = NoteInvite(c, now, Seconds(INVITATION_EXPIRY))
    /\ resp' = InviteResponse("staff_create", c, "ok")
    /\ UNCHANGED <<now, flow, otpCache, attempts, rateMarker, issued, lastAllowed,
                   fails, pc, seen, granted, cache, invites, docVars>>

(* VerifyInvitationView.post *)
VerifyInvitation(c) ==
    /\ flow \in StaffFlows
    /\ resp' = InviteResponse("verify_invitation", c,
                   IF ~PendingInvitee(user, c) THEN "not_found"
                   ELSE IF InvitationExpired(user.invitation_sent_at, now) THEN "expired"
                   ELSE "ok")
    /\ delivery' = Remembered(resp')
    /\ UNCHANGED <<now, flow, codeVars, cache, stillVars>>

(* StaffSetupAccountView.post *)
StaffSetupAccount(c, pw, otp) ==
    /\ flow \in StaffFlows
    /\ IF ~PendingInvitee(user, c)
       THEN /\ resp' = InviteResponse("staff_setup", c, "not_found")
            /\ UNCHANGED <<user, otpCache, issued, inviteLog>>
       ELSE IF InvitationExpired(user.invitation_sent_at, now)
       THEN /\ resp' = InviteResponse("staff_setup", c, "expired")
            /\ UNCHANGED <<user, otpCache, issued, inviteLog>>
       ELSE /\ user' = [user EXCEPT !.password = pw, !.account_status = "active",
                                    !.is_2fa_enabled = TRUE,
                                    !.invitation_code = NoCode,
                                    !.invitation_sent_at = NoTime,
                                    !.last_otp_sent_at = now]
            /\ otpCache' = CacheSetOtp(otp, now)
            /\ issued' = [issued EXCEPT !["otp"] = NoteIssue(@, otp, now)]
            /\ inviteLog' = NoteSetup(c, now)
            /\ resp' = InviteResponse("staff_setup", c, "ok")
    /\ UNCHANGED <<now, flow, attempts, rateMarker, lastAllowed, fails, pc, seen,
                   granted, cache, invites, docVars>>
    /\ delivery' = Remembered(resp')

(* _send_patient_invite: PatientInvite.objects.create, the code unique *)
SendPatientInvite(c) ==
    /\ flow = "patient_invite"
    /\ ~invites[c].exists
    /\ invites' = [invites EXCEPT ![c] =
                      [exists |-> TRUE, is_used |-> FALSE, sent_at |-> now,
                       expires_at |-> now + Seconds(PATIENT_INVITE_DAYS * 86400)]]
    /\ inviteLog' = NoteInvite(c, now, Seconds(PATIENT_INVITE_DAYS * 86400))
    /\ resp' = InviteResponse("send_patient_invite", c, "ok")
    /\ UNCHANGED <<now, flow, codeVars, cache, docVars, delivery>>

(* PatientInvite.objects.get(invitation_code=c, is_used=False) finds a row *)
OpenInvite(c) == c # NoCode /\ invites[c].exists /\ ~invites[c].is_used

(* PatientVerifyInviteView.post *)
PatientVerifyInvite(c) ==
    /\ flow = "patient_invite"
    /\ resp' = InviteResponse("patient_verify_invite", c,
                   IF c = NoCode THEN "bad_request"
                   ELSE IF ~OpenInvite(c) THEN "not_found"
                   ELSE IF now > invites[c].expires_at THEN "expired"
                   ELSE "ok")
    /\ UNCHANGED <<now, flow, codeVars, otherVars>>

(* PatientSetupAccountView.post *)
PatientSetupAccount(c, pw, otp) ==
    /\ flow = "patient_invite"
    /\ IF c = NoCode
       THEN /\ resp' = InviteResponse("patient_setup", c, "bad_request")
            /\ UNCHANGED <<user, otpCache, issued, invites, inviteLog>>
       ELSE IF ~OpenInvite(c)
       THEN /\ resp' = InviteResponse("patient_setup", c, "not_found")
            /\ UNCHANGED <<user, otpCache, issued, invites, inviteLog>>
       ELSE IF now > invites[c].expires_at
       THEN /\ resp' = InviteResponse("patient_setup", c, "expired")
            /\ UNCHANGED <<user, otpCache, issued, invites, inviteLog>>
       ELSE IF user.exists
       THEN /\ resp' = InviteResponse("patient_setup", c, "exists")
            /\ UNCHANGED <<user, otpCache, issued, invites, inviteLog>>
       ELSE /\ user' = [NoUser EXCEPT !.exists = TRUE, !.password = pw,
                                      !.account_status = "pending",
                                      !.is_2fa_enabled = TRUE,
                                      !.invitation_sent_at = invites[c].sent_at,
                                      !.last_otp_sent_at = now]
            /\ invites' = [invites EXCEPT ![c].is_used = TRUE]
            /\ otpCache' = CacheSetOtp(otp, now)
            /\ issued' = [issued EXCEPT !["otp"] = NoteIssue(@, otp, now)]
            /\ inviteLog' = NoteSetup(c, now)
            /\ resp' = InviteResponse("patient_setup", c, "ok")
    /\ UNCHANGED <<now, flow, attempts, rateMarker, lastAllowed, fails, pc, seen,
                   granted, cache, docVars, delivery>>

NextInvite ==
    \/ Tick
    \/ CleanupExpiredCodes
    \/ \E c \in Codes : StaffCreate(c)
    \/ \E c \in Codes : VerifyInvitation(c)
    \/ \E c \in Codes, pw \in Passwords, otp \in Codes : StaffSetupAccount(c, pw, otp)
    \/ \E c \in Codes : SendPatientInvite(c)
    \/ \E c \in Codes \cup {NoCode} : PatientVerifyInvite(c)
    \/ \E c \in Codes \cup {NoCode}, pw \in Passwords, otp \in Codes :
          PatientSetupAccount(c, pw, otp)

SpecInvite == InitInvite /\ [][NextInvite]_vars

(* ------------- every flow that sends a code or an invitation ----------- *)
InitDelivery ==
    /\ InitCommon
    /\ flow \in Flows \cup {"staff_invite"}
    /\ user \in {NoUser, CreateUser(1)}

(* the instants at which a code or an invitation runs out, and one tick    *)
(* after each                                                              *)
ExpiryMarks(f) ==
    {m \in ClockMarks(f) :
        m \notin {Seconds(s) + d : s \in {OTP_RESEND_SECONDS, LIMIT_SECONDS}, d \in {0, 1}}}

(* the clock moves to the next instant at which something runs out *)
TickToExpiry ==
    /\ \E t \in ExpiryMarks(flow) :
          /\ t > now
          /\ \A m \in ExpiryMarks(flow) : m > now => t <= m
          /\ now' = t
    /\ otpCache' = Expire(otpCache, NoOtp, now')
    /\ attempts' = [a \in Actions |-> Expire(attempts[a], NoAttempts, now')]
    /\ rateMarker' = [a \in Actions |-> Expire(rateMarker[a], NoMarker, now')]
    /\ fails' = [p \in Purposes |-> Lapse(fails[p], now')]
    /\ cache' = CacheCull(cache, now')
    /\ resp' = NoResp
    /\ delivery' = "none"
    /\ UNCHANGED <<flow, user, issued, lastAllowed, pc, seen, granted>>
    /\ UNCHANGED stillVars

NextDelivery ==
    \/ TickToExpiry
    \/ \E pw \in Passwords, otp \in Codes : PatientRegister(pw, otp)
    \/ \E c \in Codes : ForgotPassword(c)
    \/ \E c \in Codes, pw \in Passwords : ResetPassword(c, pw)
    \/ \E c \in Codes : ResendEmailVerification(c)
    \/ \E c \in Codes : VerifyEmail(c)
    \/ CleanupExpiredCodes
    \/ \E ident \in {"email", "mobile"}, pw \in Passwords, otp \in Codes :
          Login(ident, pw, otp)
    \/ \E otp \in Codes : VerifyOTP(otp)
    \/ \E c \in Codes : StaffCreate(c)
    \/ \E c \in Codes : VerifyInvitation(c)
    \/ \E c \in Codes, pw \in Passwords, otp \in Codes : StaffSetupAccount(c, pw, otp)

SpecDelivery == InitDelivery /\ [][NextDelivery]_vars

(* ----------------- the document-insight pipelines ---------------------- *)
DocFlows == {"clinic_doc", "portal_doc"}

InitPipeline ==
    /\ InitCommon
    /\ flow \in DocFlows
    /\ user = NoUser

DocFrame == UNCHANGED <<now, flow, codeVars, cache, inviteVars, delivery, sideVars>>

(* PatientDocumentListUploadView.post / the patient-portal upload: the row *)
(* is created and a thread runs the pipeline on it                         *)
Upload ==
    /\ flow \in DocFlows
    /\ ~doc.exists
    /\ doc' = [exists |-> TRUE, ai_processed |-> FALSE, ai_readable |-> TRUE]
    /\ runs' = Append(runs, NewRun(FALSE))
    /\ resp' = [view |-> "upload", purpose |-> "document", code |-> NoCode,
                status |-> "created", wait |-> 0]
    /\ UNCHANGED <<insightRows, vectors, processing, handler, stored>>
    /\ DocFrame

(* a further call of _process_patient_document(document_id), made when the *)
(* calls before it have returned                                           *)
PortalRerun ==
    /\ flow = "portal_doc"
    /\ doc.exists
    /\ \A r \in DOMAIN runs : ~Active(runs[r])
    /\ NextRunId <= MaxRuns
    /\ runs' = Append(runs, NewRun(FALSE))
    /\ UNCHANGED <<doc, insightRows, vectors, processing, handler, stored, resp>>
    /\ DocFrame

(* every column of the row is written from the copy *)
SaveFields_All(row, copy, fields) == copy

(* Model.save(update_fields=fields): the row takes the named columns from  *)
(* the instance being saved and keeps its other columns                    *)
SaveFields(row, copy, fields) ==
    [f \in DOMAIN row |-> IF f \in fields THEN copy[f] ELSE row[f]]

(* AIToggleView.post up to the row it loads *)
AIToggleGet ==
    /\ flow = "portal_doc"
    /\ doc.exists
    /\ ~toggle.copy.exists
    /\ toggle' = [toggle EXCEPT !.copy = doc]
    /\ UNCHANGED <<doc, insightRows, vectors, runs, processing, handler, stored, resp>>
    /\ UNCHANGED <<ask, links, setup, twin, shares>>
    /\ UNCHANGED <<now, flow, codeVars, cache, inviteVars, delivery>>

(* AIToggleView.post from there: the flag of the loaded row is inverted    *)
(* and saved with update_fields=['ai_readable']                            *)
AIToggleSave ==
    /\ flow = "portal_doc"
    /\ toggle.copy.exists
    /\ LET mine == [toggle.copy EXCEPT !.ai_readable = ~toggle.copy.ai_readable]
       IN  /\ doc' = SaveFields(doc, mine, {"ai_readable"})
           /\ resp' = [view |-> "ai_toggle", purpose |-> "document", code |-> NoCode,
                       status |-> IF mine.ai_readable THEN "enabled" ELSE "disabled",
                       wait |-> 0]
    /\ toggle' = [copy |-> NoDoc, was |-> <<doc.ai_readable>>]
    /\ UNCHANGED <<insightRows, vectors, runs, processing, handler, stored>>
    /\ UNCHANGED <<ask, links, setup, twin, shares>>
    /\ UNCHANGED <<now, flow, codeVars, cache, inviteVars, delivery>>

(* DocumentInsightsView.get (patient portal) *)
PortalInsightsGet ==
    /\ flow = "portal_doc"
    /\ doc.exists
    /\ resp' = [view |-> "portal_insights", purpose |-> "document", code |-> NoCode,
                status |-> IF Len(insightRows) > 0 THEN "insights"
                           ELSE IF doc.ai_readable /\ doc.ai_processed THEN "no_insights"
                           ELSE "not_processed",
                wait |-> 0]
    /\ UNCHANGED docVars
    /\ DocFrame

(* PatientDocumentInsightView.get up to the test of _processing; handler   *)
(* holds the requests that have passed it, with what they read of the flag *)
(* (a request passes only while the run it will start is within MaxRuns)   *)
InsightGetCheck(w) ==
    /\ flow = "clinic_doc"
    /\ doc.exists
    /\ w \notin DOMAIN handler
    /\ IF Len(insightRows) > 0
       THEN /\ processing' = FALSE
            /\ resp' = [view |-> "clinic_insights", purpose |-> "document",
                        code |-> NoCode, status |-> "insights", wait |-> 0]
            /\ UNCHANGED handler
       ELSE IF processing
       THEN /\ resp' = [view |-> "clinic_insights", purpose |-> "document",
                        code |-> NoCode, status |-> "processing", wait |-> 0]
            /\ UNCHANGED <<processing, handler>>
       ELSE /\ Len(runs) + Cardinality(DOMAIN handler) < MaxRuns
            /\ handler' = [x \in DOMAIN handler \cup {w} |->
                              IF x # w THEN handler[x]
                              ELSE IF doc.ai_processed THEN "retry" ELSE "first"]
            /\ UNCHANGED <<processing, resp>>
    /\ UNCHANGED <<doc, insightRows, vectors, runs, stored>>
    /\ DocFrame

(* PatientDocumentInsightView.get from there: the flag is reset, the id is *)
(* added to _processing and a thread runs the pipeline                     *)
InsightGetStart(w) ==
    /\ flow = "clinic_doc"
    /\ w \in DOMAIN handler
    /\ doc' = IF handler[w] = "retry" THEN [doc EXCEPT !.ai_processed = FALSE] ELSE doc
    /\ processing' = TRUE
    /\ runs' = Append(runs, NewRun(TRUE))
    /\ handler' = [x \in DOMAIN handler \ {w} |-> handler[x]]
    /\ resp' = [view |-> "clinic_insights", purpose |-> "document", code |-> NoCode,
                status |-> "processing", wait |-> 0]
    /\ UNCHANGED <<insightRows, vectors, stored>>
    /\ DocFrame

(* the id stays in _processing when the run is over *)
RunEnds_KeepsMarker(r) ==
    processing' = processing

(* the run r is over: _run's finally discards the id when the GET started it *)
RunEnds(r) ==
    processing' = IF runs[r].via_get THEN FALSE ELSE processing

(* the download or the text extraction raises: the outer except logs it *)
RunExtractRaises(r) ==
    /\ flow \in DocFlows
    /\ r \in DOMAIN runs
    /\ runs[r].pc = "extract"
    /\ runs' = [runs EXCEPT ![r].pc = "done"]
    /\ RunEnds(r)
    /\ UNCHANGED <<doc, insightRows, vectors, handler, stored, resp>>
    /\ DocFrame

(* extract_text returns n chunks worth of text; none: process_document     *)
(* returns, _process_patient_document skips to the flag                    *)
RunExtract(r, hasText, n) ==
    /\ flow \in DocFlows
    /\ r \in DOMAIN runs
    /\ runs[r].pc = "extract"
    /\ ~hasText => n = 0
    /\ IF hasText
       THEN /\ runs' = [runs EXCEPT ![r].n = n,
                                    ![r].pc = IF n = 0 THEN "query" ELSE "embed"]
            /\ UNCHANGED processing
       ELSE IF flow = "clinic_doc"
       THEN /\ runs' = [runs EXCEPT ![r].pc = "done"]
            /\ RunEnds(r)
       ELSE /\ runs' = [runs EXCEPT ![r].pc = "mark"]
            /\ UNCHANGED processing
    /\ UNCHANGED <<doc, insightRows, vectors, handler, stored, resp>>
    /\ DocFrame

(* the vector of chunk i goes to the index as soon as it is computed *)
AfterEmbed_Upserts(vecs, r, i) == Upserted(vecs, {i}, r)

(* _embed_texts: the vector of chunk i is appended to a local list *)
AfterEmbed(vecs, r, i) == vecs

(* _embed_texts, one chunk; a raise ends chunk_and_embed_document, which   *)
(* catches it and returns 0                                                *)
RunEmbed(r, ok) ==
    /\ flow \in DocFlows
    /\ r \in DOMAIN runs
    /\ runs[r].pc = "embed"
    /\ IF ok
       THEN /\ runs' = [runs EXCEPT ![r].k = @ + 1,
                                    ![r].pc = IF runs[r].k + 1 = runs[r].n
                                              THEN "upsert" ELSE "embed"]
            /\ vectors' = AfterEmbed(vectors, r, runs[r].k + 1)
       ELSE /\ runs' = [runs EXCEPT ![r].embed_failed = TRUE, ![r].pc = "query",
                                    ![r].n = 0, ![r].k = 0]
            /\ UNCHANGED vectors
    /\ UNCHANGED <<doc, insightRows, processing, handler, stored, resp>>
    /\ DocFrame

(* index.upsert of the next batch; a raise is caught like the one above *)
RunUpsert(r, ok) ==
    /\ flow \in DocFlows
    /\ r \in DOMAIN runs
    /\ runs[r].pc = "upsert"
    /\ LET last == IF runs[r].u + BATCH_SIZE < runs[r].n
                   THEN runs[r].u + BATCH_SIZE ELSE runs[r].n
       IN  IF ok
           THEN /\ vectors' = Upserted(vectors, (runs[r].u + 1)..last, r)
                /\ runs' = IF last = runs[r].n
                           THEN [runs EXCEPT ![r].pc = "query", ![r].n = 0,
                                             ![r].k = 0, ![r].u = 0]
                           ELSE [runs EXCEPT ![r].u = last]
           ELSE /\ runs' = [runs EXCEPT ![r].pc = "query", ![r].n = 0,
                                        ![r].k = 0, ![r].u = 0]
                /\ UNCHANGED vectors
    /\ UNCHANGED <<doc, insightRows, processing, handler, stored, resp>>
    /\ DocFrame

(* the lines of response.text: a line that opens or closes a code fence,   *)
(* a line of other text, or a whole JSON object (0: the empty one)         *)
Fence == [kind |-> "fence", val |-> 0]

Text == [kind |-> "text", val |-> 0]

Json(c) == [kind |-> "json", val |-> c]

(* what the model can answer: nothing, or a body (an object or prose)      *)
(* with or without a fence before it, a fence after it and a remark after  *)
(* that                                                                    *)
Replies ==
    {<<>>} \cup
    {(IF open THEN <<Fence>> ELSE <<>>) \o <<body>> \o
     (IF close THEN <<Fence>> ELSE <<>>) \o (IF trail THEN <<Text>> ELSE <<>>) :
        open \in BOOLEAN, close \in BOOLEAN, trail \in BOOLEAN,
        body \in {Json(c) : c \in 0..NumInsights} \cup {Text}}

(* the replies that are a JSON object and nothing else *)
PlainReplies == {<<Json(c)>> : c \in 0..NumInsights}

(* the index of the last fence line of lines, 0 without one *)
LastFence(lines) ==
    LET fs == {i \in DOMAIN lines : lines[i].kind = "fence"}
    IN  IF fs = {} THEN 0 ELSE CHOOSE i \in fs : \A j \in fs : j <= i

(* generate_insights: a reply that starts with a fence loses its first     *)
(* line and, if a fence is left, everything from the last one on           *)
StripFences(lines) ==
    IF Len(lines) > 0 /\ lines[1].kind = "fence"
    THEN LET rest == Tail(lines)
         IN  IF LastFence(rest) = 0 THEN rest
             ELSE SubSeq(rest, 1, LastFence(rest) - 1)
    ELSE lines

(* json.loads accepts exactly one JSON document *)
IsJson(lines) == Len(lines) = 1 /\ lines[1].kind = "json"

(* what cannot be parsed is taken for an insight *)
JsonLoads_Salvages(lines) == IF IsJson(lines) THEN lines[1].val ELSE 1

(* json.loads(text.strip()) inside generate_insights' try: the object, or  *)
(* None (0) from the except when it raises                                 *)
JsonLoads(lines) == IF IsJson(lines) THEN lines[1].val ELSE 0

(* generate_insights: None without vectors under the document's tag, when  *)
(* the query or the model call raises (~ok) or when the reply does not     *)
(* parse, else what json.loads gives (0: an empty object)                  *)
RunGenerate(r, ok, reply) ==
    /\ flow \in DocFlows
    /\ r \in DOMAIN runs
    /\ runs[r].pc = "query"
    /\ LET asked == ok /\ DOMAIN vectors # {}
           text == StripFences(reply)
           data == IF asked THEN JsonLoads(text) ELSE 0
       IN  runs' = [runs EXCEPT ![r].data = data,
                                ![r].parse_failed = asked /\ ~IsJson(text),
                                ![r].pc = IF data = 0 THEN "mark" ELSE "write"]
    /\ UNCHANGED <<doc, insightRows, vectors, processing, handler, stored, resp>>
    /\ DocFrame

(* every write adds a row *)
UpdateOrCreate_Creates(rows, c) == Append(rows, c)

(* objects.update_or_create(document=doc, defaults=...) *)
UpdateOrCreate(rows, c) == IF Len(rows) = 0 THEN <<c>> ELSE [rows EXCEPT ![1] = c]

(* the insight write; a raise goes to the outer except *)
RunWrite(r, ok) ==
    /\ flow \in DocFlows
    /\ r \in DOMAIN runs
    /\ runs[r].pc = "write"
    /\ IF ok /\ Len(insightRows) <= 1
       THEN /\ insightRows' = UpdateOrCreate(insightRows, runs[r].data)
            /\ stored' = runs[r].data
            /\ runs' = [runs EXCEPT ![r].pc = "mark", ![r].wrote = TRUE, ![r].data = 0]
            /\ UNCHANGED processing
       ELSE /\ runs' = [runs EXCEPT ![r].pc = "done", ![r].data = 0]
            /\ RunEnds(r)
            /\ UNCHANGED <<insightRows, stored>>
    /\ UNCHANGED <<doc, vectors, handler, resp>>
    /\ DocFrame

(* doc.ai_processed = True; doc.save(update_fields=['ai_processed']) *)
RunMark(r) ==
    /\ flow \in DocFlows
    /\ r \in DOMAIN runs
    /\ runs[r].pc = "mark"
    /\ doc' = [doc EXCEPT !.ai_processed = TRUE]
    /\ runs' = [runs EXCEPT ![r].marked = TRUE, ![r].pc = "done"]
    /\ RunEnds(r)
    /\ UNCHANGED <<insightRows, vectors, handler, stored, resp>>
    /\ DocFrame

NextPipeline ==
    \/ Upload
    \/ PortalRerun
    \/ PortalInsightsGet
    \/ \E w \in Workers : InsightGetCheck(w)
    \/ \E w \in Workers : InsightGetStart(w)
    \/ \E r \in RunIds : RunExtractRaises(r)
    \/ \E r \in RunIds, hasText \in BOOLEAN, n \in {0} \cup ChunkIds :
          RunExtract(r, hasText, n)
    \/ \E r \in RunIds, ok \in BOOLEAN : RunEmbed(r, ok)
    \/ \E r \in RunIds, ok \in BOOLEAN : RunUpsert(r, ok)
    \/ \E r \in RunIds, reply \in PlainReplies : RunGenerate(r, TRUE, reply)
    \/ \E r \in RunIds : RunGenerate(r, FALSE, <<>>)
    \/ \E r \in RunIds, ok \in BOOLEAN : RunWrite(r, ok)
    \/ \E r \in RunIds : RunMark(r)

SpecPipeline == InitPipeline /\ [][NextPipeline]_vars

(* the patient-portal document with its owner toggling AI readability    *)
(* while the pipeline runs                                                 *)
InitPortal ==
    /\ InitPipeline
    /\ flow = "portal_doc"

NextPortal ==
    \/ Upload
    \/ PortalRerun
    \/ PortalInsightsGet
    \/ AIToggleGet
    \/ AIToggleSave
    \/ \E r \in RunIds : RunExtractRaises(r)
    \/ \E r \in RunIds, hasText \in BOOLEAN, n \in {0} \cup ChunkIds :
          RunExtract(r, hasText, n)
    \/ \E r \in RunIds, ok \in BOOLEAN : RunEmbed(r, ok)
    \/ \E r \in RunIds, ok \in BOOLEAN : RunUpsert(r, ok)
    \/ \E r \in RunIds, reply \in PlainReplies : RunGenerate(r, TRUE, reply)
    \/ \E r \in RunIds : RunGenerate(r, FALSE, <<>>)
    \/ \E r \in RunIds, ok \in BOOLEAN : RunWrite(r, ok)
    \/ \E r \in RunIds : RunMark(r)

SpecPortal == InitPortal /\ [][NextPortal]_vars

(* the pipelines with every reply the model can give (SpecPipeline draws  *)
(* the plain ones and the raising call, after which a run goes on as after *)
(* a reply that does not parse); each run starts when the one before it    *)
(* has returned                                                            *)
NextReply ==
    \/ Upload
    \/ PortalRerun
    \/ \E r \in RunIds : RunExtractRaises(r)
    \/ \E r \in RunIds, hasText \in BOOLEAN, n \in {0} \cup ChunkIds :
          RunExtract(r, hasText, n)
    \/ \E r \in RunIds, ok \in BOOLEAN : RunEmbed(r, ok)
    \/ \E r \in RunIds, ok \in BOOLEAN : RunUpsert(r, ok)
    \/ \E r \in RunIds, reply \in Replies : RunGenerate(r, TRUE, reply)
    \/ \E r \in RunIds : RunGenerate(r, FALSE, <<>>)
    \/ \E r \in RunIds, ok \in BOOLEAN : RunWrite(r, ok)
    \/ \E r \in RunIds : RunMark(r)

SpecReply == InitPipeline /\ [][NextReply]_vars

(* the next step of the thread of run r, whatever its calls return *)
RunStep(r) ==
    \/ RunExtractRaises(r)
    \/ \E hasText \in BOOLEAN, n \in {0} \cup ChunkIds : RunExtract(r, hasText, n)
    \/ \E ok \in BOOLEAN : RunEmbed(r, ok)
    \/ \E ok \in BOOLEAN : RunUpsert(r, ok)
    \/ \E reply \in PlainReplies : RunGenerate(r, TRUE, reply)
    \/ RunGenerate(r, FALSE, <<>>)
    \/ \E ok \in BOOLEAN : RunWrite(r, ok)
    \/ RunMark(r)

(* the pipelines with their threads scheduled: a started thread goes on    *)
(* until it returns (each call it makes returns or raises), and a request  *)
(* that has passed the test of _processing goes on to start its thread     *)
SpecPipelineLive ==
    /\ InitPipeline
    /\ [][NextPipeline]_vars
    /\ \A r \in RunIds : WF_vars(RunStep(r))
    /\ \A w \in Workers : WF_vars(InsightGetStart(w))

(* --------------- generate_insights: the text for the model ------------- *)
DocTags == {"this", "other"}

(* the chunk counts the index can hold under this document's tag: few, or  *)
(* around what one query returns                                           *)
StockSizes == (0..MaxChunks) \cup {TOP_K - 1, TOP_K, TOP_K + 1}

InitQuery ==
    /\ InitCommon
    /\ flow = "query"
    /\ user = NoUser

(* the index as the call finds it *)
Stocked(n, m, c) ==
    /\ flow = "query"
    /\ ask.pc = "idle"
    /\ ask' = [NoAsk EXCEPT !.pc = "stored", !.stock = [this |-> n, other |-> m],
                            !.chars = c]
    /\ UNCHANGED <<now, flow, resp, codeVars, cache, inviteVars, delivery>>
    /\ UNCHANGED <<doc, insightRows, vectors, runs, processing, handler, stored>>
    /\ UNCHANGED <<toggle, links, setup, twin, shares>>

(* the vectors that pass filter=[{'document_id': {'$eq': doc_id}}] *)
Filtered(stock, tag) == {<<tag, i>> : i \in 1..stock[tag]}

(* index.query(vector=zeros, top_k=200, filter=...): every vector is as    *)
(* near to the zero vector as any other, so which top_k of those that pass *)
(* the filter come back is the index's choice; left is the set it leaves   *)
(* out                                                                     *)
Query(left) ==
    /\ flow = "query"
    /\ ask.pc = "stored"
    /\ LET pass == Filtered(ask.stock, "this")
       IN  /\ left \subseteq pass
           /\ Cardinality(left) = IF Cardinality(pass) > TOP_K
                                  THEN Cardinality(pass) - TOP_K ELSE 0
           /\ ask' = [ask EXCEPT !.pc = "queried", !.matches = pass \ left]
    /\ UNCHANGED <<now, flow, resp, codeVars, cache, inviteVars, delivery>>
    /\ UNCHANGED <<doc, insightRows, vectors, runs, processing, handler, stored>>
    /\ UNCHANGED <<toggle, links, setup, twin, shares>>

(* sorted(results, key=chunk_index): how many matches come before x *)
Rank(ms, x) == Cardinality({y \in ms : y[2] < x[2]})

(* '\n'.join(texts): where the text of match x starts, each chunk before   *)
(* it followed by a separator                                              *)
StartsAt(ms, x, c) == Rank(ms, x) * (c + 1)

(* full_text[:15000] of the matches ms: the pieces of chunks that lie in   *)
(* the first PROMPT_CHARS characters, each with where it starts            *)
FullText(ms, c) ==
    {[tag |-> x[1], chunk |-> x[2], at |-> StartsAt(ms, x, c),
      chars |-> IF StartsAt(ms, x, c) + c <= PROMPT_CHARS
                THEN c ELSE PROMPT_CHARS - StartsAt(ms, x, c)] :
        x \in {y \in ms : StartsAt(ms, y, c) < PROMPT_CHARS}}

(* generate_insights from the matches to the prompt; without a match it    *)
(* returns None before it                                                  *)
BuildPrompt ==
    /\ flow = "query"
    /\ ask.pc = "queried"
    /\ ask' = IF ask.matches = {}
              THEN [ask EXCEPT !.pc = "none"]
              ELSE [ask EXCEPT !.pc = "asked",
                               !.text = FullText(ask.matches, ask.chars)]
    /\ UNCHANGED <<now, flow, resp, codeVars, cache, inviteVars, delivery>>
    /\ UNCHANGED <<doc, insightRows, vectors, runs, processing, handler, stored>>
    /\ UNCHANGED <<toggle, links, setup, twin, shares>>

NextQuery ==
    \/ \E n \in StockSizes, m \in 0..MaxChunks, c \in {1, CHUNK_SIZE} : Stocked(n, m, c)
    \/ \E i \in 1..(TOP_K + 1) : Query({<<"this", i>>})
    \/ Query({})
    \/ BuildPrompt

SpecQuery == InitQuery /\ [][NextQuery]_vars

(* --------------------- document-upload links --------------------------- *)
InitLink ==
    /\ InitCommon
    /\ flow = "upload_link"
    /\ user = NoUser

(* DocumentUploadLink.is_expired *)
LinkExpired(l, t) == t > l.expires_at

(* DocumentUploadLink.is_valid *)
LinkValid(l, t) == ~LinkExpired(l, t) /\ ~l.is_used

(* what both token views answer for a link that is not valid *)
LinkRefusal(l, t) == IF LinkExpired(l, t) THEN "expired" ELSE "used"

LinkFrame ==
    UNCHANGED <<now, flow, codeVars, cache, inviteVars, delivery, doc, insightRows,
                vectors, runs, processing, handler, stored, ask, toggle, setup, twin,
                shares>>

(* GenerateDocumentUploadLinkView.post: a row with a fresh token *)
GenerateLink(t) ==
    /\ flow = "upload_link"
    /\ ~links[t].exists
    /\ links' = [links EXCEPT ![t] = [exists |-> TRUE, is_used |-> FALSE,
                                      expires_at |-> now + Seconds(LINK_DAYS * 86400),
                                      files |-> 0]]
    /\ resp' = [view |-> "generate_link", purpose |-> "upload_link", code |-> t,
                status |-> "ok", wait |-> 0]
    /\ LinkFrame

(* VerifyDocumentUploadTokenView.post *)
VerifyUploadToken(t) ==
    /\ flow = "upload_link"
    /\ resp' = [view |-> "verify_link", purpose |-> "upload_link", code |-> t,
                status |-> IF ~links[t].exists THEN "invalid"
                           ELSE IF ~LinkValid(links[t], now)
                           THEN LinkRefusal(links[t], now)
                           ELSE "ok",
                wait |-> 0]
    /\ UNCHANGED links
    /\ LinkFrame

(* DocumentUploadViaTokenView.post with sent files of which kept pass the  *)
(* extension and size tests and reach the storage: a PatientDocument row   *)
(* is created for each of them                                             *)
UploadViaToken(t, sent, kept) ==
    /\ flow = "upload_link"
    /\ kept <= sent
    /\ LET l == links[t]
           open == l.exists /\ LinkValid(l, now)
       IN  /\ (open /\ kept > 0) => l.files + kept <= MaxFiles
           /\ links' = IF open THEN [links EXCEPT ![t].files = @ + kept] ELSE links
           /\ resp' = [view |-> "upload_link", purpose |-> "upload_link", code |-> t,
                       status |-> IF ~l.exists THEN "invalid"
                                  ELSE IF ~LinkValid(l, now) THEN LinkRefusal(l, now)
                                  ELSE IF sent = 0 THEN "no_files"
                                  ELSE IF kept > 0 THEN "uploaded"
                                  ELSE "rejected",
                       wait |-> 0]
    /\ LinkFrame

NextLink ==
    \/ Tick
    \/ \E t \in Codes : GenerateLink(t)
    \/ \E t \in Codes : VerifyUploadToken(t)
    \/ \E t \in Codes, sent \in 0..MaxFiles, kept \in 0..MaxFiles : UploadViaToken(t, sent, kept)

SpecLink == InitLink /\ [][NextLink]_vars

(* -------- the invited staff account and the login endpoints ------------ *)
InitStaffLogin ==
    /\ InitCommon
    /\ flow = "staff_login"
    /\ user = NoUser

(* the account is followed until its setup has completed and the OTP of   *)
(* the setup has been tried: what the login endpoints do with an active    *)
(* account after that is in Spec                                           *)
Followed == user.account_status # "active" \/ otpCache.set

NextStaffLogin ==
    \/ Tick
    \/ \E c \in Codes : StaffCreate(c)
    \/ \E c \in Codes, pw \in Passwords, otp \in Codes : StaffSetupAccount(c, pw, otp)
    \/ /\ Followed
       /\ \E ident \in {"email", "mobile"}, pw \in Passwords, otp \in Codes :
             Login(ident, pw, otp)
    \/ /\ Followed
       /\ \E otp \in Codes : VerifyOTP(otp)

SpecStaffLogin == InitStaffLogin /\ [][NextStaffLogin]_vars

(* ------------- two requests to StaffSetupAccountView at once ------------ *)
(* the invited account as StaffSerializer.create left it *)
Invited(c) ==
    [NoUser EXCEPT !.exists = TRUE, !.account_status = "pending",
                   !.invitation_code = c, !.invitation_sent_at = 0]

InitSetupRace ==
    /\ InitCommon
    /\ flow = "setup_race"
    /\ user \in {Invited(c) : c \in Codes}

SetupFrame ==
    UNCHANGED <<now, flow, attempts, rateMarker, lastAllowed, fails, pc, seen, granted,
                cache, inviteVars, delivery, doc, insightRows, vectors, runs,
                processing, handler, stored, ask, toggle, links, twin, shares>>

(* StaffSetupAccountView.post up to the account it finds (lines 621-634) *)
SetupGet(w, c, pw) ==
    /\ flow = "setup_race"
    /\ setup[w].pc = "idle"
    /\ LET status == IF ~PendingInvitee(user, c) THEN "not_found"
                     ELSE IF InvitationExpired(user.invitation_sent_at, now) THEN "expired"
                     ELSE "none"
       IN  /\ setup' = [setup EXCEPT ![w] =
                           [pc |-> IF status = "none" THEN "found" ELSE "done",
                            code |-> c, password |-> pw, status |-> status]]
           /\ resp' = IF status = "none" THEN resp
                      ELSE InviteResponse("staff_setup", c, status)
    /\ UNCHANGED <<user, otpCache, issued>>
    /\ SetupFrame

(* StaffSetupAccountView.post from there (lines 636-656): the columns are  *)
(* saved whatever the row holds by now, and the OTP is cached              *)
SetupSave(w, otp) ==
    /\ flow = "setup_race"
    /\ setup[w].pc = "found"
    /\ user' = [user EXCEPT !.password = setup[w].password,
                            !.account_status = "active",
                            !.is_2fa_enabled = TRUE,
                            !.invitation_code = NoCode,
                            !.invitation_sent_at = NoTime,
                            !.last_otp_sent_at = now]
    /\ otpCache' = CacheSetOtp(otp, now)
    /\ issued' = [issued EXCEPT !["otp"] = NoteIssue(@, otp, now)]
    /\ setup' = [setup EXCEPT ![w].pc = "done", ![w].status = "ok"]
    /\ resp' = InviteResponse("staff_setup", setup[w].code, "ok")
    /\ SetupFrame

NextSetupRace ==
    \/ Tick
    \/ \E w \in Workers, c \in Codes, pw \in Passwords : SetupGet(w, c, pw)
    \/ \E w \in Workers, otp \in Codes : SetupSave(w, otp)

SpecSetupRace == InitSetupRace /\ [][NextSetupRace]_vars

(* ------------------- the two pipelines side by side -------------------- *)
(* what the stages of one run can do: the download returns or raises, the  *)
(* extracted text is empty or not, the splitter gives chunks chunks, the   *)
(* embedding and the upsert return or raise, the index holds vectors of an *)
(* earlier run under the tag or not, the synthesis gives reply (0: None or *)
(* an empty object), the insight write returns or raises                   *)
StageOutcomes ==
    [download : BOOLEAN, text : BOOLEAN, chunks : 0..MaxChunks, embed : BOOLEAN,
     upsert : BOOLEAN, found : BOOLEAN, reply : 0..NumInsights, write : BOOLEAN]

(* the document states a run can start from *)
DocStates == [ai_processed : BOOLEAN, insight : 0..NumInsights]

InitTwin ==
    /\ InitCommon
    /\ flow = "twin"
    /\ user = NoUser

TwinFrame ==
    UNCHANGED <<now, flow, resp, codeVars, cache, inviteVars, delivery, doc, insightRows,
                vectors, runs, processing, handler, stored, ask, toggle, links, setup,
                shares>>

(* chunk_and_embed_document: how many vectors it upserts *)
ChunkAndEmbed(o) == IF o.chunks > 0 /\ o.embed /\ o.upsert THEN o.chunks ELSE 0

(* generate_insights: None (0) when the query finds no vector under the tag *)
GenerateInsights(o) == IF o.found \/ ChunkAndEmbed(o) > 0 THEN o.reply ELSE 0

(* the part both pipelines share: synthesis, the write if there is         *)
(* something to write, then the flag; a raising write leaves the flag      *)
SynthesizeAndMark(d, o) ==
    LET data == GenerateInsights(o)
    IN  IF data # 0 /\ ~o.write THEN d
        ELSE [ai_processed |-> TRUE, insight |-> IF data # 0 THEN data ELSE d.insight]

(* process_document *)
ProcessDocument(d, o) ==
    IF ~o.download THEN d
    ELSE IF ~o.text THEN d
    ELSE SynthesizeAndMark(d, o)

(* _process_patient_document *)
ProcessPatientDocument(d, o) ==
    IF ~o.download THEN d
    ELSE IF o.text THEN SynthesizeAndMark(d, o)
    ELSE [d EXCEPT !.ai_processed = TRUE]

(* the two documents and what their runs will meet *)
TwinStart(d, o) ==
    /\ flow = "twin"
    /\ twin.pc = "idle"
    /\ ~o.text => o.chunks = 0
    /\ twin' = [NoTwin EXCEPT !.pc = "given", !.given = o, !.before = d]
    /\ TwinFrame

TwinClinic ==
    /\ flow = "twin"
    /\ twin.pc \in {"given", "portal"}
    /\ twin' = [twin EXCEPT !.pc = IF twin.pc = "given" THEN "clinic" ELSE "both",
                            !.clinic = ProcessDocument(twin.before, twin.given)]
    /\ TwinFrame

TwinPortal ==
    /\ flow = "twin"
    /\ twin.pc \in {"given", "clinic"}
    /\ twin' = [twin EXCEPT !.pc = IF twin.pc = "given" THEN "portal" ELSE "both",
                            !.portal = ProcessPatientDocument(twin.before, twin.given)]
    /\ TwinFrame

NextTwin ==
    \/ \E d \in DocStates, o \in StageOutcomes : TwinStart(d, o)
    \/ TwinClinic
    \/ TwinPortal

SpecTwin == InitTwin /\ [][NextTwin]_vars

(* ---------------- sharing a patient-portal document -------------------- *)
InitShare ==
    /\ InitCommon
    /\ flow = "share"
    /\ user = NoUser

ShareFrame ==
    UNCHANGED <<now, flow, codeVars, cache, inviteVars, delivery, doc, insightRows,
                vectors, runs, processing, handler, stored, ask, toggle, links, setup,
                twin>>

ShareResponse(v, s) ==
    [view |-> v, purpose |-> "share", code |-> NoCode, status |-> s, wait |-> 0]

ActiveShares == {e \in Doctors : shares.share[e] = "active"}

(* the patient-portal upload: the UploadedDocument row *)
SharedUpload ==
    /\ flow = "share"
    /\ shares.doc = "none"
    /\ shares' = [shares EXCEPT !.doc = "stored"]
    /\ resp' = ShareResponse("upload", "created")
    /\ ShareFrame

(* the patient names a primary doctor (patient_portal/views.py:254-264) *)
SetDoctor(e) ==
    /\ flow = "share"
    /\ shares.primary # e
    /\ shares' = [shares EXCEPT !.primary = e]
    /\ resp' = ShareResponse("set_doctor", "ok")
    /\ ShareFrame

(* ShareDocumentView.post *)
ShareDocument ==
    /\ flow = "share"
    /\ IF shares.primary = NoDoctor
       THEN /\ resp' = ShareResponse("share", "no_doctor")
            /\ UNCHANGED shares
       ELSE IF shares.doc # "stored"
       THEN /\ resp' = ShareResponse("share", "not_found")
            /\ UNCHANGED shares
       ELSE IF shares.share[shares.primary] = "active"
       THEN /\ resp' = ShareResponse("share", "already")
            /\ UNCHANGED shares
       ELSE /\ shares' = [shares EXCEPT
                            !.share[shares.primary] = "active",
                            !.shared = [exists |-> TRUE, doctor_email |-> shares.primary,
                                        is_active |-> TRUE]]
            /\ resp' = ShareResponse("share", "created")
    /\ ShareFrame

(* RevokeShareView.delete: objects.get(document_id=pk, patient=user,       *)
(* is_active=True) raises MultipleObjectsReturned on two active rows       *)
RevokeShare ==
    /\ flow = "share"
    /\ IF ActiveShares = {}
       THEN /\ resp' = ShareResponse("revoke", "not_found")
            /\ UNCHANGED shares
       ELSE IF Cardinality(ActiveShares) > 1
       THEN /\ resp' = ShareResponse("revoke", "error")
            /\ UNCHANGED shares
       ELSE /\ shares' = [shares EXCEPT
                            !.share = [e \in Doctors |->
                                         IF e \in ActiveShares THEN "revoked" ELSE @[e]],
                            !.shared = IF @.exists THEN [@ EXCEPT !.is_active = FALSE]
                                       ELSE @]
            /\ resp' = ShareResponse("revoke", "ok")
    /\ ShareFrame

(* doc.delete(): the DocumentShare rows have a ForeignKey to the document  *)
(* with on_delete=CASCADE; SharedPatientDocument has none                  *)
DeleteCascade(sh) ==
    [sh EXCEPT !.doc = "deleted", !.share = [e \in Doctors |-> "none"]]

(* DocumentDetailView.delete *)
DeleteDocument ==
    /\ flow = "share"
    /\ IF shares.doc # "stored"
       THEN /\ resp' = ShareResponse("delete", "not_found")
            /\ UNCHANGED shares
       ELSE /\ shares' = DeleteCascade(shares)
            /\ resp' = ShareResponse("delete", "deleted")
    /\ ShareFrame

(* get_document_details for the doctor whose email is e *)
GetDocumentDetails(e) ==
    /\ flow = "share"
    /\ resp' = ShareResponse("document_details",
                   IF /\ shares.shared.exists
                      /\ shares.shared.doctor_email = e
                      /\ shares.shared.is_active
                   THEN "ok" ELSE "not_found")
    /\ UNCHANGED shares
    /\ ShareFrame

NextShare ==
    \/ SharedUpload
    \/ \E e \in Doctors : SetDoctor(e)
    \/ ShareDocument
    \/ RevokeShare
    \/ DeleteDocument
    \/ \E e \in Doctors : GetDocumentDetails(e)

SpecShare == InitShare /\ [][NextShare]_vars

(* ======================= properties of the code flows ================== *)
IsVerify(r) == r.view \in {"reset_password", "verify_email", "verify_otp"}

Success(r) == r.status \in {"ok", "tokens"}

(* how long a code of purpose p stays valid, in ticks *)
Ttl(p) ==
    CASE p = "password_reset" -> Seconds(PASSWORD_RESET_EXPIRY)
      [] p = "email_verification" -> Seconds(EMAIL_VERIFICATION_EXPIRY)
      [] OTHER -> Seconds(OTP_TIMEOUT)

(* the attempt window of p holds max_attempts failed verifications *)
Blocked(p) == p \in Actions /\ fails[p].n >= MAX_ATTEMPTS

(* this step is a verification request of purpose p that submits the code *)
(* issued last for p *)
VerifiesIssued(p) ==
    /\ IsVerify(resp')
    /\ resp'.purpose = p
    /\ issued[p].code # NoCode
    /\ resp'.code = issued[p].code

(* C1 as stated: a verification with the issued code inside its TTL        *)
(* succeeds, and every later verification with the same code, no new issue *)
(* in between, fails as invalid; an issued code verifies at most once.     *)
C1_AsStated ==
    [][\A p \in Purposes :
          VerifiesIssued(p) =>
             /\ (issued[p].uses = 0 /\ now - issued[p].at <= Ttl(p)) => Success(resp')
             /\ issued[p].uses >= 1 => resp'.status = "invalid"
             /\ issued'[p].uses <= 1]_vars

(* C1 amended: a verification with the issued code inside its TTL succeeds *)
(* unless the attempt limiter blocks the identifier (then it is rejected   *)
(* as rate-limited); every later verification with the same code fails, as *)
(* invalid or as rate-limited; an issued code verifies at most once.       *)
C1_OnceOnly ==
    [][\A p \in Purposes :
          VerifiesIssued(p) =>
             /\ (issued[p].uses = 0 /\ now - issued[p].at <= Ttl(p) /\ ~Blocked(p))
                   => Success(resp')
             /\ (issued[p].uses = 0 /\ Blocked(p)) => resp'.status = "rate_limited"
             /\ issued[p].uses >= 1 =>
                   resp'.status = IF Blocked(p) THEN "rate_limited" ELSE "invalid"
             /\ issued'[p].uses <= 1]_vars

(* C1 witness: the code that verified once is submitted again and refused *)
C1_Witness ==
    \E p \in Purposes :
       /\ IsVerify(resp) /\ resp.purpose = p
       /\ issued[p].uses = 1 /\ resp.code = issued[p].code
       /\ resp.status = "invalid"

(* the code and issue time stored on the account for purpose p *)
StoredCode(u, p) ==
    IF p = "password_reset" THEN u.password_reset_code ELSE u.email_verification_code

StoredSentAt(u, p) ==
    IF p = "password_reset" THEN u.password_reset_sent_at
                            ELSE u.email_verification_sent_at

(* this step is a reset / e-mail verification request that submits the    *)
(* stored code more than the expiry after it was issued                    *)
SubmitsStale(p) ==
    /\ IsVerify(resp')
    /\ resp'.purpose = p
    /\ user.exists
    /\ StoredCode(user, p) # NoCode
    /\ resp'.code = StoredCode(user, p)
    /\ now - StoredSentAt(user, p) > Ttl(p)

(* C2 as stated: a request with the stored code that arrives more than    *)
(* 600 s after the issue is rejected as expired and changes nothing.       *)
C2_AsStated ==
    [][\A p \in Actions :
          SubmitsStale(p) => resp'.status = "expired" /\ user' = user]_vars

(* C2 amended: such a request is rejected, as expired or, when the attempt *)
(* limiter blocks the identifier, as rate-limited; the password and the    *)
(* verified flag (the whole account row) are unchanged.                    *)
C2_StaleRejected ==
    [][\A p \in Actions :
          SubmitsStale(p) =>
             /\ resp'.status = IF Blocked(p) THEN "rate_limited" ELSE "expired"
             /\ user' = user]_vars

(* C2 witness: the stored code was submitted too late and refused as expired *)
C2_Witness ==
    \E p \in Actions :
       /\ IsVerify(resp) /\ resp.purpose = p /\ resp.status = "expired"
       /\ resp.code = StoredCode(user, p)
       /\ now - StoredSentAt(user, p) > Ttl(p)

(* C3: a verification succeeds only with the code issued last for its      *)
(* purpose: after a new issue the code issued before no longer verifies.   *)
C3_OneLiveCode == \A p \in Purposes : ~issued[p].stray

(* C3 witness: after a second issue the first code was submitted and refused *)
C3_Witness ==
    \E p \in Purposes :
       /\ IsVerify(resp) /\ resp.purpose = p /\ resp.status = "invalid"
       /\ issued[p].prev # NoCode /\ issued[p].prev # issued[p].code
       /\ resp.code = issued[p].prev
       /\ issued[p].uses = 0

(* ===================== properties of the limiter ======================= *)
AttemptLimit(a) ==
    CheckCodeAttemptLimit(attempts[a], now, MAX_ATTEMPTS, WINDOW_MINUTES)

(* C4 as stated: allowed below max_attempts failures in the window, denied *)
(* from max_attempts on, allowed again as soon as window_minutes*60        *)
(* seconds have passed since the first failure of the window.              *)
C4_AsStated ==
    \A a \in Actions :
       AttemptLimit(a).allowed <=>
          ~(fails[a].n >= MAX_ATTEMPTS /\ now - fails[a].first < WindowTicks)

(* C4 amended: allowed below max_attempts failures in the window, denied   *)
(* from max_attempts on, and allowed again only once MORE than             *)
(* window_minutes*60 seconds have passed since the first failure: exactly  *)
(* window_minutes*60 seconds after it the call still denies.               *)
C4_WindowBlocks ==
    \A a \in Actions :
       AttemptLimit(a).allowed <=>
          ~(fails[a].n >= MAX_ATTEMPTS /\ now - fails[a].first <= WindowTicks)

(* C4 witness: more than max_attempts failures, exactly window_minutes*60  *)
(* seconds after the first: still denied                                   *)
C4_Witness ==
    \E a \in Actions :
       /\ fails[a].n > MAX_ATTEMPTS
       /\ now - fails[a].first = WindowTicks
       /\ ~AttemptLimit(a).allowed

(* C5: with max_attempts failures in the open window, a reset / e-mail     *)
(* verification request is refused as rate-limited and changes neither the *)
(* account nor the counter, whatever code it carries.                      *)
C5_BlockedRejected ==
    [][\A p \in Actions :
          (/\ IsVerify(resp') /\ resp'.purpose = p
           /\ fails[p].n >= MAX_ATTEMPTS
           /\ now - fails[p].first <= WindowTicks)
          => /\ resp'.status = "rate_limited"
             /\ user' = user
             /\ attempts' = attempts]_vars

(* C5 witness: the correct, unexpired code was refused as rate-limited *)
C5_Witness ==
    \E p \in Actions :
       /\ IsVerify(resp) /\ resp.purpose = p /\ resp.status = "rate_limited"
       /\ resp.code = StoredCode(user, p)
       /\ now - StoredSentAt(user, p) <= Ttl(p)

(* C6 as stated: on every verification endpoint at most max_attempts wrong *)
(* codes are compared with a live code within one attempt window.          *)
C6_AsStated == \A p \in Purposes : fails[p].wrong <= MAX_ATTEMPTS

IsCooldownCall(r) == r.view = "check_email_rate_limit"

(* C7: a check_email_rate_limit call that follows an allowed call for the  *)
(* same action is allowed exactly if at least the cooldown has passed      *)
(* since that allowed call.                                                *)
C7_Cooldown ==
    [][\A a \in Actions :
          (IsCooldownCall(resp') /\ resp'.purpose = a /\ lastAllowed[a] # NoTime)
          => (resp'.status = "ok" <=> now - lastAllowed[a] >= Seconds(LIMIT_SECONDS))]_vars

(* C7 witness: a call one tick before the cooldown ran out was refused *)
C7_Witness ==
    \E a \in Actions :
       /\ IsCooldownCall(resp) /\ resp.purpose = a /\ resp.status = "rate_limited"
       /\ now - lastAllowed[a] = Seconds(LIMIT_SECONDS) - 1

(* C8 as stated: of two calls for one (action, e-mail) at most one is      *)
(* allowed inside one cooldown, also when they overlap.                    *)
C8_AsStated ==
    \A v, w \in Workers :
       (v # w /\ granted[v] # NoTime /\ granted[w] # NoTime /\ granted[v] <= granted[w])
       => granted[w] - granted[v] >= Seconds(LIMIT_SECONDS)

(* what is left of the cooldown of action a, in ticks *)
Remaining(a) == Seconds(LIMIT_SECONDS) - (now - lastAllowed[a])

Refused(a) ==
    IsCooldownCall(resp') /\ resp'.purpose = a /\ resp'.status = "rate_limited"

(* C9 as stated: a refused call leaves the marker as it was and returns    *)
(* the cooldown minus the time passed since the last allowed call.         *)
C9_AsStated ==
    [][\A a \in Actions :
          Refused(a) => /\ rateMarker' = rateMarker
                        /\ Seconds(resp'.wait) = Remaining(a)]_vars

(* C9 amended: a refused call leaves the marker as it was and returns the  *)
(* cooldown minus the time passed since the last allowed call, cut down to *)
(* whole seconds (0 during the last second of the cooldown).               *)
C9_RefusalKeepsMarker ==
    [][\A a \in Actions :
          Refused(a) => /\ rateMarker' = rateMarker
                        /\ Seconds(resp'.wait) <= Remaining(a)
                        /\ Remaining(a) < Seconds(resp'.wait + 1)]_vars

(* C9 witness: a refusal within the last second of the cooldown: wait 0 *)
C9_Witness ==
    \E a \in Actions :
       /\ IsCooldownCall(resp) /\ resp.purpose = a /\ resp.status = "rate_limited"
       /\ resp.wait = 0
       /\ rateMarker[a].last_sent = lastAllowed[a]

(* C10: right after a successful reset / e-mail verification the attempt   *)
(* check for that action reports allowed with max_attempts remaining.      *)
C10_SuccessClears ==
    [][\A p \in Actions :
          (IsVerify(resp') /\ resp'.purpose = p /\ resp'.status = "ok")
          => CheckCodeAttemptLimit(attempts'[p], now', MAX_ATTEMPTS, WINDOW_MINUTES)
                = [allowed |-> TRUE, attempts_remaining |-> MAX_ATTEMPTS,
                   reset_time |-> 0]]_vars

(* C10 witness: a success that followed failures of the same window *)
C10_Witness ==
    \E p \in Actions :
       /\ IsVerify(resp) /\ resp.purpose = p /\ resp.status = "ok"
       /\ fails[p].cleared >= 1

(* this step is a call of a limiter function for action a *)
LimiterCall(a) ==
    /\ resp'.view \in {"check_email_rate_limit", "increment_failed_attempts",
                       "clear_failed_attempts"}
    /\ resp'.purpose = a

(* C11: a limiter call for one action changes neither the result of        *)
(* check_code_attempt_limit nor that of check_email_rate_limit for another *)
(* action, whatever the identifier (the same one included).                *)
C11_Namespaced ==
    [][\A a, b \in Actions :
          (LimiterCall(a) /\ a # b) =>
             \A i \in Emails :
                /\ EmailRateResult(cache', b, i, now') = EmailRateResult(cache, b, i, now)
                /\ CodeAttemptResult(cache', b, i, now')
                      = CodeAttemptResult(cache, b, i, now)]_vars

(* C11 witness: one action of an address is blocked and in cooldown while  *)
(* the other action of the same address is free on both counts             *)
C11_Witness ==
    \E a, b \in Actions, i \in Emails :
       /\ a # b
       /\ EmailRateResult(cache, a, i, now)[1] = FALSE
       /\ CodeAttemptResult(cache, a, i, now)[1] = FALSE
       /\ EmailRateResult(cache, b, i, now) = <<TRUE, 0>>
       /\ CodeAttemptResult(cache, b, i, now) = <<TRUE, MAX_ATTEMPTS, 0>>

(* this step is a verify-invitation or setup-account request with code c *)
InviteRequest(c) ==
    /\ resp'.view \in {"verify_invitation", "staff_setup", "patient_verify_invite",
                       "patient_setup"}
    /\ resp'.code = c

(* the invitation with code c has completed a setup, or has run out *)
UsedOrExpired(c) ==
    \/ inviteLog[c].setups >= 1
    \/ inviteLog[c].at # NoTime /\ now - inviteLog[c].at > inviteLog[c].ttl

(* C12: a verify-invitation or setup-account request with a code that has  *)
(* completed a setup or has run out is rejected and changes nothing; a     *)
(* code completes at most one setup, and none after its expiry.            *)
C12_SingleUse ==
    [][\A c \in Codes :
          /\ (InviteRequest(c) /\ UsedOrExpired(c))
                => /\ resp'.status \in {"not_found", "expired"}
                   /\ user' = user
                   /\ invites' = invites
          /\ inviteLog'[c].setups <= 1
          /\ ~inviteLog'[c].late]_vars

(* C12 witness: a setup request with the code that had completed a setup   *)
(* was refused                                                             *)
C12_Witness ==
    \E c \in Codes :
       /\ resp.view \in {"staff_setup", "patient_setup"}
       /\ resp.code = c
       /\ resp.status = "not_found"
       /\ inviteLog[c].setups = 1

(* C13: a document marked processed has a persisted insight record, and a  *)
(* run sets the flag only after its own insight write has succeeded.       *)
C13_AsStated ==
    /\ doc.ai_processed => Len(insightRows) >= 1
    /\ \A r \in DOMAIN runs : runs[r].marked => runs[r].wrote

(* C14: a run whose embedding call raised does not mark the document       *)
(* processed.                                                              *)
C14_AsStated ==
    \A r \in DOMAIN runs : ~(runs[r].embed_failed /\ runs[r].marked)

(* C15: a run whose embedding call raised for some chunk has upserted no   *)
(* vector: no vector under the document's tag comes from that run.         *)
C15_NoPartialUpsert ==
    \A r \in DOMAIN runs :
       runs[r].embed_failed => \A i \in DOMAIN vectors : vectors[i] # r

(* C15 witness: a run whose embedding raised is over, and the vectors an   *)
(* earlier run stored are still there                                      *)
C15_Witness ==
    \E r \in DOMAIN runs :
       /\ runs[r].embed_failed
       /\ runs[r].pc = "done"
       /\ \E i \in DOMAIN vectors : vectors[i] < r

(* C16: however many runs have written the insight of the document, there  *)
(* is one insight row and it holds what the last write stored; before the  *)
(* first write there is none.                                              *)
C16_OneRecord ==
    /\ Len(insightRows) <= 1
    /\ stored = 0 => insightRows = <<>>
    /\ stored # 0 => insightRows = <<stored>>

(* C16 witness: two runs, one after the other, have written the insight    *)
C16_Witness ==
    \E r1, r2 \in DOMAIN runs :
       /\ r1 < r2
       /\ runs[r1].wrote /\ runs[r1].pc = "done"
       /\ runs[r2].wrote /\ runs[r2].pc = "done"
       /\ Len(insightRows) = 1

(* C17: at most one pipeline run of the clinic-side document is executing. *)
C17_AsStated ==
    flow = "clinic_doc" => Cardinality({r \in DOMAIN runs : Active(runs[r])}) <= 1

(* C18: a verification request that fails for a reason other than the      *)
(* attempt limiter gets one and the same answer, whether the account never *)
(* existed, the code was consumed or the code has expired.                 *)
C18_AsStated ==
    (IsVerify(resp) /\ ~Success(resp) /\ resp.status # "rate_limited")
       => resp.status = "invalid"

(* the send came to nothing *)
Undelivered(d) == d \in {"failed", "raised"}

C20_AsStated ==
    \A a \in Actions :
       (~AttemptLimit(a).allowed /\ now - fails[a].first < WindowTicks)
          => /\ AttemptLimit(a).attempts_remaining = 0
             /\ AttemptLimit(a).reset_time > 0

(* C21: when the latest run, the earlier ones over, has upserted its       *)
(* chunks, the vectors under the document's tag are exactly the chunks of  *)
(* that run, contiguous from the first: none of an earlier run is left.    *)
C21_AsStated ==
    [][\A r \in DOMAIN runs :
          (/\ r = Len(runs)
           /\ runs[r].pc = "upsert"
           /\ runs'[r].pc = "query"
           /\ vectors' # vectors
           /\ \A q \in DOMAIN runs : q # r => ~Active(runs[q]))
          => /\ DOMAIN vectors' = 1..runs[r].n
             /\ \A i \in DOMAIN vectors' : vectors'[i] = r]_vars

(* a run that the insights endpoint started and that has not returned *)
GetRun(r) == r \in DOMAIN runs /\ runs[r].via_get /\ Active(runs[r])

C23_NoGarbagePersist ==
    [][/\ \A r \in DOMAIN runs' : runs'[r].parse_failed => ~runs'[r].wrote
       /\ insightRows' # insightRows
             => \E r \in DOMAIN runs :
                   /\ runs[r].pc = "write"
                   /\ runs'[r].wrote
                   /\ ~runs[r].parse_failed]_vars

(* a run whose reply did not parse is over, and the insight an earlier run *)
(* wrote is the one stored                                                 *)
C23_Witness ==
    \E q, r \in DOMAIN runs :
       /\ q < r
       /\ runs[q].wrote
       /\ runs[r].parse_failed /\ ~Active(runs[r])
       /\ Len(insightRows) = 1
       /\ insightRows[1] = stored
(* C24: the text handed to the model is the join, in ascending chunk       *)
(* index, of every chunk stored under the document's tag and of no other,  *)
(* cut to its first 15000 characters.                                      *)
C24_AsStated ==
    ask.pc = "asked"
       => ask.text = FullText(Filtered(ask.stock, "this"), ask.chars)
(* C25: a toggle of a patient-portal document inverts ai_readable and      *)
(* changes nothing else, whatever the pipeline is doing: ai_processed, the *)
(* insight rows, the vectors and the runs are as before; the toggle after  *)
(* one that completed brings the flag back to what it was before that one. *)
C25_OnlyFlag ==
    [][(toggle.copy.exists /\ ~toggle'.copy.exists)
          => /\ doc'.ai_readable = ~doc.ai_readable
             /\ doc'.ai_processed = doc.ai_processed
             /\ doc'.exists = doc.exists
             /\ insightRows' = insightRows
             /\ vectors' = vectors
             /\ runs' = runs
             /\ stored' = stored
             /\ Len(toggle.was) = 1 => doc'.ai_readable = toggle.was[1]]_vars

(* the second of two toggles has answered while a later run is under way,  *)
(* with the insight and the vectors of the first run stored: the flag is   *)
(* the one of the upload                                                   *)
C25_Witness ==
    /\ resp.view = "ai_toggle"
    /\ Len(toggle.was) = 1
    /\ doc.ai_readable
    /\ Len(insightRows) = 1
    /\ DOMAIN vectors # {}
    /\ \E r \in DOMAIN runs : Active(runs[r]) /\ runs[r].pc = "upsert"
(* C27: once a file has been stored through an upload link, every later    *)
(* verify or upload request with its token, made before the link runs out, *)
(* is refused as already used.                                             *)
C27_AsStated ==
    [][\A t \in Codes :
          (/\ links[t].files >= 1
           /\ ~LinkExpired(links[t], now)
           /\ \/ VerifyUploadToken(t)
              \/ \E sent \in 0..MaxFiles, kept \in 0..MaxFiles : UploadViaToken(t, sent, kept))
          => resp'.status = "used"]_vars
(* C26: of two StaffSetupAccountView requests with the same invitation     *)
(* code at most one succeeds.                                              *)
C26_AsStated ==
    \A v, w \in Workers :
       (v # w /\ setup[v].code = setup[w].code /\ setup[v].status = "ok")
          => setup[w].status # "ok"
(* C28: with the same stage outcomes, from the same document state, the    *)
(* clinic-side and the patient-portal pipeline leave the same ai_processed *)
(* and the same insight.                                                   *)
C28_AsStated ==
    twin.pc = "both" => twin.clinic = twin.portal
(* C29: while the invited staff account is pending no request is answered  *)
(* with tokens, and the account leaves 'pending' only in a                 *)
(* StaffSetupAccountView request that carries the account's own invitation *)
(* code before it has run out.                                             *)
C29_PendingUntilSetup ==
    [][(user.exists /\ user.account_status = "pending")
          => /\ resp'.status # "tokens"
             /\ user'.account_status # "pending"
                   => /\ resp'.view = "staff_setup"
                      /\ resp'.status = "ok"
                      /\ resp'.code = user.invitation_code
                      /\ ~InvitationExpired(user.invitation_sent_at, now)]_vars

(* the pending account has been refused at the login after a failed OTP    *)
(* verification                                                            *)
C29_Witness ==
    /\ user.exists
    /\ user.account_status = "pending"
    /\ user.invitation_code # NoCode
    /\ resp.view = "login"
    /\ resp.status = "unauthorized"
    /\ fails["otp"] # NoFails
(* C30: a doctor's fetch through get_document_details is answered with the *)
(* document only while the document is stored and a DocumentShare of it to *)
(* that doctor's email is active.                                          *)
C30_AsStated ==
    [][\A e \in Doctors :
          (GetDocumentDetails(e) /\ resp'.status = "ok")
             => /\ shares.doc = "stored"
                /\ shares.share[e] = "active"]_vars
====

